---- MODULE Spec2Model ----
(***************************************************************************)
(* SProto registry: the publish / fetch handlers of internal/api, the      *)
(* metadata tables (modules, module_versions) behind a READ COMMITTED      *)
(* transaction, and the blob store (MinIO or local filesystem).            *)
(*                                                                         *)
(* Strings that the code parses (version strings) are sequences of tokens  *)
(* so that parsing and formatting are computed, not assumed.  SHA-256 is   *)
(* a collision-free function of the bytes.  Timestamps are a logical       *)
(* clock.  Every call to a store may fail (at most MaxFaults times in a    *)
(* run).                                                                   *)
(***************************************************************************)
EXTENDS Integers, Sequences, FiniteSets, TLC

\* ---------------------------------------------------------------- bounds
\* number of store calls the environment makes fail in a run
MaxFaults == 1

\* the goroutines of the HTTP server that serve requests concurrently; each
\* serves one request after the other
Reqs == {"g1", "g2"}

\* ---------------------------------------------------------------- inputs
Namespaces == {"acme"}
ModuleNames == {"user"}

\* version strings of the requests, as token sequences
RawVersions ==
  { <<"v", "1", ".", "0", ".", "0">>,
    <<"2">>,
    <<"x">> }

\* the multipart field "artifact": its bytes (a sequence of byte values), or
\* NoFile, which is no byte sequence, when the field is missing
NoFile == <<-1>>
Artifacts == { <<1>>, <<2>> }

\* uuid.Nil, the zero value of an ID that has not been assigned
NoID == 0

\* ------------------------------------------------ semver (Masterminds v3)
NumVal == ("0" :> 0) @@ ("1" :> 1) @@ ("2" :> 2) @@ ("5" :> 5) @@ ("10" :> 10)
Idents == {"rc1", "b7"}

IsNum(t) == t \in DOMAIN NumVal
NumTok(n) == CHOOSE t \in DOMAIN NumVal : NumVal[t] = n

NumAt(b, i) == i <= Len(b) /\ IsNum(b[i])
DotNumAt(b, i) == i + 1 <= Len(b) /\ b[i] = "." /\ IsNum(b[i + 1])
TagAt(b, i, sep) == i + 1 <= Len(b) /\ b[i] = sep /\ b[i + 1] \in Idents

\* semver.NewVersion: optional "v", one to three dot-separated numbers
\* (missing minor / patch are 0), optional -prerelease, optional +metadata,
\* and nothing else.
NewVersion(s) ==
  LET b == IF Len(s) > 0 /\ s[1] = "v" THEN Tail(s) ELSE s
      k == IF ~NumAt(b, 1) THEN 0
           ELSE IF ~DotNumAt(b, 2) THEN 1
           ELSE IF ~DotNumAt(b, 4) THEN 2
           ELSE 3
      i == 2 * k
      hasPre == TagAt(b, i, "-")
      j == IF hasPre THEN i + 2 ELSE i
      hasMeta == TagAt(b, j, "+")
      end == IF hasMeta THEN j + 2 ELSE j
  IN  IF k = 0 \/ end # Len(b) + 1
        THEN [ok |-> FALSE, major |-> 0, minor |-> 0, patch |-> 0, pre |-> "", metadata |-> ""]
        ELSE [ok |-> TRUE,
              major |-> NumVal[b[1]],
              minor |-> IF k >= 2 THEN NumVal[b[3]] ELSE 0,
              patch |-> IF k >= 3 THEN NumVal[b[5]] ELSE 0,
              pre |-> IF hasPre THEN b[i + 1] ELSE "",
              metadata |-> IF hasMeta THEN b[j + 1] ELSE ""]

\* (*semver.Version).String
VersionString(v) ==
  <<NumTok(v.major), ".", NumTok(v.minor), ".", NumTok(v.patch)>>
    \o (IF v.pre # "" THEN <<"-", v.pre>> ELSE <<>>)
    \o (IF v.metadata # "" THEN <<"+", v.metadata>> ELSE <<>>)

\* faulty variant: the version string of the request is kept as it is
NormalizeVersion_AsGiven(s) == s

\* versionStr = "v" + semVer.String()
NormalizeVersion(s) == <<"v">> \o VersionString(NewVersion(s))

\* the prerelease identifiers in ascending (ASCII) order
IdentOrder == <<"b7", "rc1">>
IdentRank(t) == CHOOSE i \in DOMAIN IdentOrder : IdentOrder[i] = t

\* faulty variant: only the major number is compared
Compare_MajorOnly(a, b) ==
  IF a.major # b.major THEN (IF a.major < b.major THEN -1 ELSE 1)
  ELSE 0

\* faulty variant: the prerelease is not compared
Compare_NoPrerelease(a, b) ==
  IF a.major # b.major THEN (IF a.major < b.major THEN -1 ELSE 1)
  ELSE IF a.minor # b.minor THEN (IF a.minor < b.minor THEN -1 ELSE 1)
  ELSE IF a.patch # b.patch THEN (IF a.patch < b.patch THEN -1 ELSE 1)
  ELSE 0

\* (*semver.Version).Compare: major, minor and patch as numbers; then a
\* version with a prerelease is lower than the one without; two prereleases
\* compare as strings; the metadata is not looked at
Compare(a, b) ==
  IF a.major # b.major THEN (IF a.major < b.major THEN -1 ELSE 1)
  ELSE IF a.minor # b.minor THEN (IF a.minor < b.minor THEN -1 ELSE 1)
  ELSE IF a.patch # b.patch THEN (IF a.patch < b.patch THEN -1 ELSE 1)
  ELSE IF a.pre = b.pre THEN 0
  ELSE IF a.pre = "" THEN 1
  ELSE IF b.pre = "" THEN -1
  ELSE IF IdentRank(a.pre) < IdentRank(b.pre) THEN -1 ELSE 1

\* semver.Collection.Less
Less(a, b) == Compare(a, b) < 0

\* the orders sort.Sort may leave n elements in: sort.Sort is not stable, so
\* every permutation that is sorted is a possible outcome
SortOrders(n) ==
  { f \in [1..n -> 1..n] : \A i, j \in 1..n : f[i] = f[j] => i = j }

\* sort.Sort(sort.Reverse(semver.Collection(semvers))): no element is
\* followed by a greater one
SortReverse(semvers) ==
  { [i \in 1..Len(semvers) |-> semvers[f[i]]] : f \in
      { g \in SortOrders(Len(semvers)) :
          \A i, j \in 1..Len(semvers) :
            i < j => ~Less(semvers[g[i]], semvers[g[j]]) } }

\* the versions of the slice that parse, in the order of the slice
ParsedVersions(versions) ==
  LET all == [i \in 1..Len(versions) |-> NewVersion(versions[i])]
      ok(v) == v.ok
  IN  SelectSeq(all, ok)

\* sortVersionsDesc: the possible contents of the slice after the call.  The
\* sorted versions overwrite the head of the slice; the slice keeps its
\* length, so the entries behind them stay as they were.
\* faulty variant: the slice is overwritten with v.String(), without the "v"
sortVersionsDesc_NoPrefix(versions) ==
  { [i \in 1..Len(versions) |->
       IF i <= Len(semvers) THEN VersionString(semvers[i])
                            ELSE versions[i]] :
      semvers \in SortReverse(ParsedVersions(versions)) }

sortVersionsDesc(versions) ==
  { [i \in 1..Len(versions) |->
       IF i <= Len(semvers) THEN <<"v">> \o VersionString(semvers[i])
                            ELSE versions[i]] :
      semvers \in SortReverse(ParsedVersions(versions)) }

\* hex.EncodeToString(hasher.Sum(nil)) over the bytes the TeeReader passed on
Sha256Hex(bytes) == [sha256 |-> bytes]

\* fmt.Sprintf("modules/%s/%s/protos.zip", module.ID.String(), versionStr)
\* faulty variant: the key names the module only
StorageKey_ModuleOnly(moduleID, versionStr) == <<"modules", moduleID, "protos.zip">>

StorageKey(moduleID, versionStr) == <<"modules", moduleID, versionStr, "protos.zip">>

\* ----------------------------------------------------------------- state
VARIABLES
  authToken,        \* cfg.AuthToken, the requiredToken of ApplyAuth
  authHeader,       \* the Authorization header of each request
  backend,          \* cfg.StorageType: "minio" or "local"
  modules,          \* committed rows of table modules
  module_versions,  \* committed rows of table module_versions
  objects,          \* blob store: storage key -> stored bytes
  dirs,             \* local backend: the directories under the working directory
  faults,           \* store calls that have failed so far
  pc,               \* position of each request in its handler
  in,               \* path variables and form file of each request
  loc,              \* handler locals: module, storageKey, artifactDigestHex
  tx,               \* the open transaction of each request: its uncommitted writes
  resp              \* the response written for each request

vars == <<authToken, authHeader, backend, modules, module_versions, objects, dirs, faults, pc, in, loc, tx, resp>>

\* r.Header.Get("Authorization") of a request without the header, and the
\* empty AUTH_TOKEN
NoHeader == <<>>
NoToken == <<>>

NoInput == [kind |-> "none", namespace |-> "", name |-> "", version |-> <<>>, artifact |-> NoFile,
            objectName |-> <<>>]
NoLocals == [module |-> NoID, versionStr |-> <<>>, storageKey |-> <<>>, artifactDigestHex |-> <<>>,
             versions |-> <<>>]
\* DB_TYPE, the dialector db.Init opens
DbTypes == {"postgres", "sqlite"}

NoTx == [open |-> FALSE, modules |-> {}, versions |-> {}, touched |-> {}, aborted |-> FALSE]
NoResp == [status |-> 0, error |-> "", version |-> <<>>, digest |-> <<>>, created_at |-> 0, body |-> <<>>,
           modules |-> <<>>, versions |-> <<>>, exists |-> FALSE]

Init ==
  /\ authToken = NoToken
  /\ authHeader = [p \in Reqs |-> NoHeader]
  /\ backend \in {"minio", "local"}
  /\ modules = {}
  /\ module_versions = {}
  /\ objects = [k \in {} |-> <<>>]
  /\ dirs = IF backend = "local" THEN {<<>>} ELSE {}
  /\ faults = 0
  /\ pc = [p \in Reqs |-> "idle"]
  /\ in = [p \in Reqs |-> NoInput]
  /\ loc = [p \in Reqs |-> NoLocals]
  /\ tx = [p \in Reqs |-> NoTx]
  /\ resp = [p \in Reqs |-> NoResp]

\* ------------------------------------------------------------ helpers
\* the greatest number of S, 0 when S is empty
SetMax(S) == IF S = {} THEN 0 ELSE CHOOSE x \in S : \A y \in S : y <= x

\* time.Now() / CURRENT_TIMESTAMP: a time later than every timestamp that a
\* row holds, committed or not (only the order of timestamps is observed)
now ==
  1 + SetMax({ r.created_at : r \in module_versions \cup UNION { tx[p].versions : p \in Reqs } }
             \cup { m.updated_at : m \in modules \cup UNION { tx[p].modules : p \in Reqs } })

\* uuid_generate_v4(): an id that no row, no storage key and no request holds
nextID ==
  1 + SetMax({ m.id : m \in modules \cup UNION { tx[p].modules : p \in Reqs } }
             \cup { r.module_id : r \in module_versions }
             \cup { k[2] : k \in DOMAIN objects }
             \cup { loc[p].module : p \in Reqs })

CanFail == faults < MaxFaults

\* response.Error(w, status, message) followed by return; the deferred
\* function rolls the transaction back when err != nil
ErrorResponse(status, message) == [NoResp EXCEPT !.status = status, !.error = message]

\* rows a statement of transaction p sees: committed rows and its own writes
VisibleModules(p) == modules \cup tx[p].modules
\* faulty variant: the pre-check misses the committed rows
VisibleVersions_OwnOnly(p) == tx[p].versions
VisibleVersions(p) == module_versions \cup tx[p].versions

\* another open transaction holds an uncommitted row with the same unique key
ModuleKeyLocked(p, ns, name) ==
  \E q \in Reqs \ {p} : \E m \in tx[q].modules : m.namespace = ns /\ m.name = name
VersionKeyLocked(p, mid, v) ==
  \E q \in Reqs \ {p} : \E r \in tx[q].versions : r.module_id = mid /\ r.version = v
ModuleRowLocked(p, mid) ==
  \E q \in Reqs \ {p} : mid \in tx[q].touched

\* the unique indexes idx_module_namespace_name and idx_module_version
\* (uq_module_namespace_name, uq_module_version): a committed row holds the key
\* faulty variant: the table has no unique index on (namespace, name)
ModuleKeyTaken_NoIndex(ns, name) == FALSE
ModuleKeyTaken(ns, name) == \E m \in modules : m.namespace = ns /\ m.name = name
\* faulty variant: the table has no unique index on (module_id, version)
VersionKeyTaken_NoIndex(mid, v) == FALSE
VersionKeyTaken(mid, v) == \E r \in module_versions : r.module_id = mid /\ r.version = v

\* the handler returns with an error response: rollback, nothing is committed
Fail(p, status, message) ==
  /\ resp' = [resp EXCEPT ![p] = ErrorResponse(status, message)]
  /\ tx' = [tx EXCEPT ![p] = NoTx]
  /\ pc' = [pc EXCEPT ![p] = "done"]

\* the same, after a store call failed
FailFault(p, status, message) ==
  /\ CanFail
  /\ faults' = faults + 1
  /\ Fail(p, status, message)

\* goroutine p is free to serve the next request
MayArrive(p) == pc[p] = "idle"

\* ----------------------------------------------- PublishModuleVersionHandler
\* faulty variant: the parse error is not returned and the handler goes on with the
\* version string as given
PublishStart_IgnoreParseError(p, ns, name, v, art) ==
  /\ MayArrive(p)
  /\ in' = [in EXCEPT ![p] = [NoInput EXCEPT !.kind = "publish", !.namespace = ns, !.name = name,
                                             !.version = v, !.artifact = art]]
  /\ UNCHANGED <<authToken, backend, dirs, modules, module_versions, objects>>
  /\ IF art = NoFile
       THEN /\ Fail(p, 400, "Missing 'artifact' file in form data")
            /\ UNCHANGED <<loc, faults>>
       ELSE \/ /\ loc' = [loc EXCEPT ![p].versionStr =
                             IF NewVersion(v).ok THEN NormalizeVersion(v) ELSE v]
               /\ tx' = [tx EXCEPT ![p].open = TRUE]
               /\ pc' = [pc EXCEPT ![p] = "findModule"]
               /\ UNCHANGED <<resp, faults>>
            \/ /\ FailFault(p, 500, "Database error")
               /\ UNCHANGED loc

\* input validation, multipart parsing and gormDB.Begin()
PublishStart(p, ns, name, v, art) ==
  /\ MayArrive(p)
  /\ in' = [in EXCEPT ![p] = [NoInput EXCEPT !.kind = "publish", !.namespace = ns, !.name = name,
                                             !.version = v, !.artifact = art]]
  /\ UNCHANGED <<authToken, backend, dirs, modules, module_versions, objects>>
  /\ IF v = <<>>
       THEN /\ Fail(p, 400, "Namespace, module name, and version are required")
            /\ UNCHANGED <<loc, faults>>
     ELSE IF ~NewVersion(v).ok
       THEN /\ Fail(p, 400, "Invalid semantic version format")
            /\ UNCHANGED <<loc, faults>>
     ELSE IF art = NoFile
       THEN /\ Fail(p, 400, "Missing 'artifact' file in form data")
            /\ UNCHANGED <<loc, faults>>
     ELSE \/ /\ loc' = [loc EXCEPT ![p].versionStr = NormalizeVersion(v)]
             /\ tx' = [tx EXCEPT ![p].open = TRUE]
             /\ pc' = [pc EXCEPT ![p] = "findModule"]
             /\ UNCHANGED <<resp, faults>>
          \/ /\ FailFault(p, 500, "Database error")
             /\ UNCHANGED loc

\* ------------------------------------------------- ApplyAuth, AuthMiddleware
\* strings.Split(authHeader, " "): the parts between the spaces of the
\* header, which is a sequence of words and spaces
RECURSIVE SplitFrom(_, _, _)
SplitFrom(header, i, part) ==
  IF i > Len(header) THEN <<part>>
  ELSE IF header[i] = " " THEN <<part>> \o SplitFrom(header, i + 1, <<>>)
  ELSE SplitFrom(header, i + 1, Append(part, header[i]))
Split(header) == SplitFrom(header, 1, <<>>)

\* strings.ToLower of a part
LowerCase ==
  ("Bearer" :> "bearer") @@ ("BEARER" :> "bearer") @@ ("Local" :> "local") @@ ("MINIO" :> "minio")
ToLower(part) ==
  [i \in DOMAIN part |-> IF part[i] \in DOMAIN LowerCase THEN LowerCase[part[i]] ELSE part[i]]

\* faulty variant: the token of the header is not compared
AuthMiddleware_AnyToken(requiredToken, header) ==
  IF header = NoHeader THEN "Unauthorized: Missing Authorization header"
  ELSE IF Len(Split(header)) # 2 \/ ToLower(Split(header)[1]) # <<"bearer">>
    THEN "Unauthorized: Invalid Authorization header format"
  ELSE ""

\* AuthMiddleware: the message of its 401 response, or "" when the request
\* is handed to the next handler
AuthMiddleware(requiredToken, header) ==
  LET parts == Split(header) IN
    IF header = NoHeader THEN "Unauthorized: Missing Authorization header"
    ELSE IF Len(parts) # 2 \/ ToLower(parts[1]) # <<"bearer">>
      THEN "Unauthorized: Invalid Authorization header format"
    ELSE IF parts[2] # requiredToken THEN "Unauthorized: Invalid token"
    ELSE ""

\* ApplyAuth: no middleware when the token is empty
ApplyAuth(requiredToken, header) ==
  IF requiredToken = NoToken THEN "" ELSE AuthMiddleware(requiredToken, header)

\* the route POST /api/v1/modules/{namespace}/{module_name}/{version}: the
\* publish handler wrapped by ApplyAuth
PublishRoute(p, header, ns, name, v, art) ==
  /\ MayArrive(p)
  /\ authHeader' = [authHeader EXCEPT ![p] = header]
  /\ IF ApplyAuth(authToken, header) = ""
       THEN PublishStart(p, ns, name, v, art)
       ELSE /\ in' = [in EXCEPT ![p] = [NoInput EXCEPT !.kind = "publish", !.namespace = ns,
                                                       !.name = name, !.version = v,
                                                       !.artifact = art]]
            /\ Fail(p, 401, ApplyAuth(authToken, header))
            /\ UNCHANGED <<authToken, backend, dirs, modules, module_versions, objects,
                           loc, faults>>

\* 1. FirstOrCreate, the SELECT: the module row of (namespace, name), if visible
FindModule(p) ==
  /\ pc[p] = "findModule"
  /\ UNCHANGED <<authToken, authHeader, backend, dirs, modules, module_versions, objects, in>>
  /\ \/ /\ \E m \in VisibleModules(p) :
             /\ m.namespace = in[p].namespace /\ m.name = in[p].name
             /\ loc' = [loc EXCEPT ![p].module = m.id]
          /\ pc' = [pc EXCEPT ![p] = "checkVersion"]
          /\ UNCHANGED <<tx, resp, faults>>
     \/ /\ ~\E m \in VisibleModules(p) : m.namespace = in[p].namespace /\ m.name = in[p].name
        /\ pc' = [pc EXCEPT ![p] = "createModule"]
        /\ UNCHANGED <<loc, tx, resp, faults>>
     \/ /\ FailFault(p, 500, "Database error during module lookup/creation")
        /\ UNCHANGED loc

\* faulty variant: FirstOrCreate runs on gormDB instead of tx, the new Module
\* row is committed at once
CreateModule_Autocommit(p) ==
  /\ pc[p] = "createModule"
  /\ ~ModuleKeyLocked(p, in[p].namespace, in[p].name)
  /\ UNCHANGED <<authToken, authHeader, backend, dirs, module_versions, objects, in>>
  /\ IF ModuleKeyTaken(in[p].namespace, in[p].name)
       THEN /\ Fail(p, 500, "Database error during module lookup/creation")
            /\ UNCHANGED <<modules, loc, faults>>
       ELSE /\ modules' = modules \cup
                           {[id |-> nextID, namespace |-> in[p].namespace, name |-> in[p].name,
                             created_at |-> now, updated_at |-> now]}
            /\ loc' = [loc EXCEPT ![p].module = nextID]
            /\ pc' = [pc EXCEPT ![p] = "checkVersion"]
            /\ UNCHANGED <<tx, resp, faults>>

\* 1. FirstOrCreate, the INSERT after a SELECT that found nothing.  The
\* insert waits for an open transaction holding the same (namespace, name)
\* and fails on the unique index when a committed row holds it.
CreateModule(p) ==
  /\ pc[p] = "createModule"
  /\ ~ModuleKeyLocked(p, in[p].namespace, in[p].name)
  /\ UNCHANGED <<authToken, authHeader, backend, dirs, modules, module_versions, objects, in>>
  /\ IF ModuleKeyTaken(in[p].namespace, in[p].name)
       THEN /\ Fail(p, 500, "Database error during module lookup/creation")
            /\ UNCHANGED <<loc, faults>>
       ELSE \/ /\ tx' = [tx EXCEPT ![p].modules = @ \cup
                           {[id |-> nextID, namespace |-> in[p].namespace, name |-> in[p].name,
                             created_at |-> now, updated_at |-> now]}]
               /\ loc' = [loc EXCEPT ![p].module = nextID]
               /\ pc' = [pc EXCEPT ![p] = "checkVersion"]
               /\ UNCHANGED <<resp, faults>>
            \/ /\ FailFault(p, 500, "Database error during module lookup/creation")
               /\ UNCHANGED loc

\* 2. Check for existing version (Conflict)
CheckVersion(p) ==
  /\ pc[p] = "checkVersion"
  /\ UNCHANGED <<authToken, authHeader, backend, dirs, modules, module_versions, objects, in, loc>>
  /\ \/ /\ \E r \in VisibleVersions(p) :
             r.module_id = loc[p].module /\ r.version = loc[p].versionStr
        /\ Fail(p, 409, "version already exists")
        /\ UNCHANGED faults
     \/ /\ ~\E r \in VisibleVersions(p) :
             r.module_id = loc[p].module /\ r.version = loc[p].versionStr
        /\ pc' = [pc EXCEPT ![p] = "upload"]
        /\ UNCHANGED <<tx, resp, faults>>
     \/ FailFault(p, 500, "Database error during version check")

\* ------------------------------------------------------------ blob store
\* faulty variant: the object stays where it is
Remove_Keep(objs, key) == objs

Put(objs, key, bytes) == (key :> bytes) @@ objs
Remove(objs, key) == [k \in DOMAIN objs \ {key} |-> objs[k]]

\* ------------------------------------------------ LocalStorage: the paths
\* A path is the sequence of its elements; the first element of a rooted
\* path is "/".  Files and directories are named by their path relative to
\* the base directory: <<>> is the base directory itself, and a path that
\* starts with ".." lies outside of it.

\* cfg.LocalStoragePath: the default "./sproto-storage", cleaned
BasePath == <<"sproto-storage">>

\* filepath.Clean, the elements: "." is dropped, ".." removes the element
\* before it, is dropped at the root and kept at the start of a relative path
RECURSIVE CleanElements(_, _, _)
CleanElements(elems, rooted, out) ==
  IF elems = <<>> THEN out
  ELSE LET e == Head(elems)
           next == IF e = "." THEN out
                   ELSE IF e # ".." THEN Append(out, e)
                   ELSE IF Len(out) > 0 /\ out[Len(out)] # ".."
                     THEN SubSeq(out, 1, Len(out) - 1)
                   ELSE IF rooted THEN out
                   ELSE Append(out, "..")
       IN  CleanElements(Tail(elems), rooted, next)

\* filepath.Clean
Clean(path) ==
  LET rooted == Len(path) > 0 /\ path[1] = "/"
      out == CleanElements(IF rooted THEN Tail(path) ELSE path, rooted, <<>>)
  IN  IF rooted THEN <<"/">> \o out
      ELSE IF out = <<>> THEN <<".">>
      ELSE out

\* filepath.IsAbs
IsAbs(path) == Len(path) > 0 /\ path[1] = "/"

\* filepath.Join(l.basePath, cleanObjectName)
Join(base, path) == Clean(base \o path)

\* filepath.Dir of a cleaned relative path
Dir(path) == IF Len(path) <= 1 THEN <<".">> ELSE SubSeq(path, 1, Len(path) - 1)

\* the name relative to the base directory of a cleaned path that is
\* relative to the working directory
RelToBase(path) ==
  IF path = <<".">> THEN <<"..">>
  ELSE IF path[1] = BasePath[1] THEN Tail(path)
  ELSE <<"..">> \o path

\* the path lies in the base directory
InBase(rel) == rel = <<>> \/ rel[1] # ".."

\* the path is the working directory or one of its ancestors, which exist
IsAncestor(rel) == rel # <<>> /\ \A i \in DOMAIN rel : rel[i] = ".."

\* the directories os.MkdirAll(dir) makes sure of: dir and its parents
MkdirAllDirs(dir) ==
  LET all == { RelToBase(SubSeq(dir, 1, k)) : k \in 1..Len(dir) }
  IN  { d \in all : ~IsAncestor(d) }

\* the same for the directory of a storage key, which is made of plain
\* names and lies in the base directory
KeyDirs(key) == { SubSeq(key, 1, k) : k \in 0..(Len(key) - 1) }

\* LocalStorage.getFullPath, without its os.MkdirAll: the error, or the path
getFullPath(objectName) ==
  LET cleanObjectName == Clean(objectName) IN
    IF cleanObjectName = <<".">> \/ cleanObjectName = <<"/">>
      THEN [err |-> "invalid object name", fullPath |-> <<>>]
    ELSE IF IsAbs(cleanObjectName)
      THEN [err |-> "object name cannot be an absolute path", fullPath |-> <<>>]
    ELSE [err |-> "", fullPath |-> Join(BasePath, cleanObjectName)]

\* 3./4. after a successful UploadFile: the key and the digest of the bytes read
\* faulty variant: the key kept for the row is built from the version string
\* of the request instead of the normalized one
Uploaded_RawVersionKey(p, key) ==
  /\ loc' = [loc EXCEPT ![p].storageKey = StorageKey(loc[p].module, in[p].version),
                        ![p].artifactDigestHex = Sha256Hex(in[p].artifact)]
  /\ pc' = [pc EXCEPT ![p] = "createVersion"]
  /\ UNCHANGED <<tx, resp, faults>>

Uploaded(p, key) ==
  /\ loc' = [loc EXCEPT ![p].storageKey = key,
                        ![p].artifactDigestHex = Sha256Hex(in[p].artifact)]
  /\ pc' = [pc EXCEPT ![p] = "createVersion"]
  /\ UNCHANGED <<tx, resp, faults>>

\* faulty variant: a failed PutObject is tried again
UploadMinio_Retry(p) ==
  /\ pc[p] = "upload"
  /\ backend = "minio"
  /\ UNCHANGED <<authToken, authHeader, backend, dirs, modules, module_versions, in>>
  /\ LET key == StorageKey(loc[p].module, loc[p].versionStr) IN
       \/ /\ objects' = Put(objects, key, in[p].artifact)
          /\ Uploaded(p, key)
       \/ /\ CanFail
          /\ faults' = faults + 1
          /\ UNCHANGED <<objects, loc, tx, resp, pc>>

\* faulty variant: after a failed PutObject the transaction is left open
UploadMinio_NoRollback(p) ==
  /\ pc[p] = "upload"
  /\ backend = "minio"
  /\ UNCHANGED <<authToken, authHeader, backend, dirs, modules, module_versions, in>>
  /\ LET key == StorageKey(loc[p].module, loc[p].versionStr) IN
       \/ /\ objects' = Put(objects, key, in[p].artifact)
          /\ Uploaded(p, key)
       \/ /\ CanFail
          /\ faults' = faults + 1
          /\ resp' = [resp EXCEPT ![p] =
                        ErrorResponse(500, "Failed to upload artifact to storage")]
          /\ pc' = [pc EXCEPT ![p] = "done"]
          /\ UNCHANGED <<objects, loc, tx>>

\* MinioStorage.UploadFile: PutObject stores the whole object or nothing
UploadMinio(p) ==
  /\ pc[p] = "upload"
  /\ backend = "minio"
  /\ UNCHANGED <<authToken, authHeader, backend, dirs, modules, module_versions, in>>
  /\ LET key == StorageKey(loc[p].module, loc[p].versionStr) IN
       \/ /\ objects' = Put(objects, key, in[p].artifact)
          /\ Uploaded(p, key)
       \/ /\ FailFault(p, 500, "Failed to upload artifact to storage")
          /\ UNCHANGED <<objects, loc>>

\* LocalStorage.UploadFile, getFullPath and os.Create: the directories
\* exist, the file exists and is empty
UploadLocalCreate(p) ==
  /\ pc[p] = "upload"
  /\ backend = "local"
  /\ UNCHANGED <<authToken, authHeader, backend, modules, module_versions, in, loc>>
  /\ LET key == StorageKey(loc[p].module, loc[p].versionStr) IN
       \/ /\ dirs' = dirs \cup KeyDirs(key)
          /\ objects' = Put(objects, key, <<>>)
          /\ pc' = [pc EXCEPT ![p] = "copy"]
          /\ UNCHANGED <<tx, resp, faults>>
       \/ /\ FailFault(p, 500, "Failed to upload artifact to storage")
          /\ UNCHANGED <<objects, dirs>>
       \/ /\ FailFault(p, 500, "Failed to upload artifact to storage")
          /\ dirs' = dirs \cup KeyDirs(key)
          /\ UNCHANGED objects

\* LocalStorage.UploadFile, io.Copy: the bytes are written, or the copy fails
\* and the file is removed
UploadLocalCopy(p) ==
  /\ pc[p] = "copy"
  /\ UNCHANGED <<authToken, authHeader, backend, dirs, modules, module_versions, in>>
  /\ LET key == StorageKey(loc[p].module, loc[p].versionStr) IN
       \/ /\ objects' = Put(objects, key, in[p].artifact)
          /\ Uploaded(p, key)
       \/ /\ objects' = Remove(objects, key)
          /\ FailFault(p, 500, "Failed to upload artifact to storage")
          /\ UNCHANGED loc

\* time.Now() of the autoCreateTime of a new version row of goroutine p: the
\* clock has moved on since the last timestamp was taken, or it still shows
\* the time at which a concurrent request has just taken the last one for
\* its own version row
ClockReadings(p) ==
  {now} \cup { r.created_at : r \in { r \in UNION { tx[q].versions : q \in Reqs \ {p} } :
                                        r.created_at = now - 1 } }

\* ------------------------------------------------------- metadata insert
\* 5. tx.Create(&moduleVersion).  The insert waits for an open transaction
\* holding the same (module_id, version) and fails on the unique index
\* when a committed row holds it.
CreateVersion(p) ==
  /\ pc[p] = "createVersion"
  /\ ~VersionKeyLocked(p, loc[p].module, loc[p].versionStr)
  /\ UNCHANGED <<authToken, authHeader, backend, dirs, modules, module_versions, objects, in, loc>>
  /\ IF VersionKeyTaken(loc[p].module, loc[p].versionStr)
       THEN /\ Fail(p, 500, "Database error saving module version")
            /\ UNCHANGED faults
       ELSE \/ /\ \E ts \in ClockReadings(p) :
                    tx' = [tx EXCEPT ![p].versions = @ \cup
                             {[module_id |-> loc[p].module,
                               version |-> loc[p].versionStr,
                               artifact_digest |-> loc[p].artifactDigestHex,
                               artifact_storage_key |-> loc[p].storageKey,
                               created_at |-> ts]}]
               /\ pc' = [pc EXCEPT ![p] = "updateModule"]
               /\ UNCHANGED <<resp, faults>>
            \/ FailFault(p, 500, "Database error saving module version")

\* 6. tx.Model(&module).Update("updated_at", time.Now()); a failure is
\* logged and err is reset.  The statement failed inside the transaction
\* block: PostgreSQL puts the block into the aborted state, SQLite undoes the
\* statement only and the transaction stays usable.
UpdateModule(p) ==
  /\ pc[p] = "updateModule"
  /\ ~ModuleRowLocked(p, loc[p].module)
  /\ UNCHANGED <<authToken, authHeader, backend, dirs, modules, module_versions, objects, in, loc, resp>>
  /\ pc' = [pc EXCEPT ![p] = "commit"]
  /\ \/ /\ tx' = [tx EXCEPT ![p].touched = @ \cup {loc[p].module}]
        /\ UNCHANGED faults
     \/ /\ CanFail
        /\ faults' = faults + 1
        /\ \E dbType \in DbTypes :
             tx' = [tx EXCEPT ![p].aborted = (dbType = "postgres")]

\* the committed modules table after transaction t commits at time ts
CommitModules(t, ts) ==
  { IF m.id \in t.touched THEN [m EXCEPT !.updated_at = ts] ELSE m :
      m \in modules \cup t.modules }

\* faulty variant: the commit replaces the module's rows by the new ones
CommitVersions_Replace(t) ==
  { r \in module_versions : \A x \in t.versions : x.module_id # r.module_id }
    \cup t.versions

\* the committed module_versions table after transaction t commits: the rows
\* of tx.Create(&moduleVersion) are added, no statement updates or deletes
CommitVersions(t) == module_versions \cup t.versions

\* faulty variant: the error of tx.Commit() is ignored and success is reported
Commit_IgnoreError(p) ==
  /\ pc[p] = "commit"
  /\ UNCHANGED <<authToken, authHeader, backend, dirs, objects, in, loc>>
  /\ resp' = [resp EXCEPT ![p] =
                [NoResp EXCEPT !.status = 201,
                               !.version = loc[p].versionStr,
                               !.digest = <<"sha256:", loc[p].artifactDigestHex>>,
                               !.created_at = (CHOOSE r \in tx[p].versions : TRUE).created_at]]
  /\ tx' = [tx EXCEPT ![p] = NoTx]
  /\ pc' = [pc EXCEPT ![p] = "done"]
  /\ \/ /\ ~tx[p].aborted
        /\ modules' = CommitModules(tx[p], now)
        /\ module_versions' = CommitVersions(tx[p])
        /\ UNCHANGED faults
     \/ /\ tx[p].aborted
        /\ UNCHANGED <<modules, module_versions, faults>>
     \/ /\ CanFail
        /\ faults' = faults + 1
        /\ UNCHANGED <<modules, module_versions>>

\* 7. tx.Commit() and the success response.  COMMIT of an aborted transaction
\* block rolls back and the driver returns an error.
Commit(p) ==
  /\ pc[p] = "commit"
  /\ UNCHANGED <<authToken, authHeader, backend, dirs, objects, in, loc>>
  /\ \/ /\ tx[p].aborted
        /\ Fail(p, 500, "Database error during commit")
        /\ UNCHANGED <<modules, module_versions, faults>>
     \/ /\ ~tx[p].aborted
        /\ modules' = CommitModules(tx[p], now)
        /\ module_versions' = CommitVersions(tx[p])
        /\ tx' = [tx EXCEPT ![p] = NoTx]
        /\ resp' = [resp EXCEPT ![p] =
                      [NoResp EXCEPT !.status = 201,
                                     !.version = loc[p].versionStr,
                                     !.digest = <<"sha256:", loc[p].artifactDigestHex>>,
                                     !.created_at = (CHOOSE r \in tx[p].versions : TRUE).created_at]]
        /\ pc' = [pc EXCEPT ![p] = "done"]
        /\ UNCHANGED faults
     \/ /\ FailFault(p, 500, "Database error during commit")
        /\ UNCHANGED <<modules, module_versions>>

\* ------------------------------------------ FetchModuleVersionArtifactHandler
\* the rows the JOIN of module_versions and modules finds for the triple
FetchRows(ns, name, v) ==
  { r \in module_versions :
      /\ r.version = v
      /\ \E m \in modules :
           m.id = r.module_id /\ m.namespace = ns /\ m.name = name }

\* faulty variant: the query matches the name and the version, not the namespace
\* and the module of the row
FetchResponse_AnyModule(ns, name, v) ==
  IF v = <<>>
    THEN ErrorResponse(400, "Namespace, module name, and version are required")
  ELSE IF v[1] # "v"
    THEN ErrorResponse(400, "Invalid version format: must start with 'v'")
  ELSE LET rows == { r \in module_versions : r.version = v }
       IN  IF rows = {}
             THEN ErrorResponse(404, "Module version not found")
             ELSE LET r == CHOOSE r \in rows : TRUE IN
                    IF r.artifact_storage_key \notin DOMAIN objects
                      THEN ErrorResponse(404, "Artifact not found in storage")
                      ELSE [NoResp EXCEPT !.status = 200,
                                          !.digest = r.artifact_digest,
                                          !.body = objects[r.artifact_storage_key]]

\* faulty variant: the bytes are hashed and compared with the stored digest
FetchResponse_Verifying(ns, name, v) ==
  IF v = <<>>
    THEN ErrorResponse(400, "Namespace, module name, and version are required")
  ELSE IF v[1] # "v"
    THEN ErrorResponse(400, "Invalid version format: must start with 'v'")
  ELSE LET rows == FetchRows(ns, name, v)
       IN  IF rows = {}
             THEN ErrorResponse(404, "Module version not found")
             ELSE LET r == CHOOSE r \in rows : TRUE IN
                    IF r.artifact_storage_key \notin DOMAIN objects
                      THEN ErrorResponse(404, "Artifact not found in storage")
                    ELSE IF Sha256Hex(objects[r.artifact_storage_key]) # r.artifact_digest
                      THEN ErrorResponse(500, "Artifact digest mismatch")
                      ELSE [NoResp EXCEPT !.status = 200,
                                          !.digest = r.artifact_digest,
                                          !.body = objects[r.artifact_storage_key]]

\* the response of a fetch in the current state, when no store call fails
FetchResponse(ns, name, v) ==
  IF v = <<>>
    THEN ErrorResponse(400, "Namespace, module name, and version are required")
  ELSE IF v[1] # "v"
    THEN ErrorResponse(400, "Invalid version format: must start with 'v'")
  ELSE LET rows == FetchRows(ns, name, v)
       IN  IF rows = {}
             THEN ErrorResponse(404, "Module version not found")
             ELSE LET r == CHOOSE r \in rows : TRUE IN
                    IF r.artifact_storage_key \notin DOMAIN objects
                      THEN ErrorResponse(404, "Artifact not found in storage")
                      ELSE [NoResp EXCEPT !.status = 200,
                                          !.digest = r.artifact_digest,
                                          !.body = objects[r.artifact_storage_key]]

\* the directories after storageProvider.DownloadFile for the row found:
\* LocalStorage.DownloadFile goes through getFullPath and its os.MkdirAll
DownloadDirs(ns, name, v) ==
  IF backend = "local" /\ FetchResponse(ns, name, v).status # 400
       /\ FetchRows(ns, name, v) # {}
    THEN dirs \cup KeyDirs((CHOOSE r \in FetchRows(ns, name, v) : TRUE).artifact_storage_key)
    ELSE dirs

Fetch(p, ns, name, v) ==
  /\ MayArrive(p)
  /\ in' = [in EXCEPT ![p] = [NoInput EXCEPT !.kind = "fetch", !.namespace = ns, !.name = name,
                                             !.version = v]]
  /\ UNCHANGED <<authToken, authHeader, backend, modules, module_versions, objects, loc>>
  /\ \/ /\ resp' = [resp EXCEPT ![p] = FetchResponse(ns, name, v)]
        /\ dirs' = DownloadDirs(ns, name, v)
        /\ pc' = [pc EXCEPT ![p] = "done"]
        /\ UNCHANGED <<faults, tx>>
     \/ /\ FetchResponse(ns, name, v).status # 400
        /\ FailFault(p, 500, "Failed to retrieve module version details")
        /\ UNCHANGED dirs
     \/ /\ FetchRows(ns, name, v) # {}
        /\ FetchResponse(ns, name, v).status # 400
        /\ FailFault(p, 500, "Failed to retrieve artifact from storage")
        /\ dirs' \in {dirs, DownloadDirs(ns, name, v)}

\* --------------------------------------------------------- ListModulesHandler
\* the (namespace, name) pairs in the order of ORDER BY m.namespace, m.name
KeyOrder == << <<"acme", "order">>, <<"acme", "user">> >>
KeyRank(m) == CHOOSE i \in DOMAIN KeyOrder : KeyOrder[i] = <<m.namespace, m.name>>

\* the rows of module mid that ROW_NUMBER() OVER (PARTITION BY module_id
\* ORDER BY created_at DESC) may number 1
LatestVersions(mid) ==
  { r \in module_versions :
      /\ r.module_id = mid
      /\ \A o \in module_versions : o.module_id = mid => o.created_at <= r.created_at }

\* faulty variant: the row numbered 1 is the one with the highest version
LatestVersion_Highest(mid) ==
  IF LatestVersions(mid) = {} THEN {<<>>}
  ELSE { r.version : r \in
           { r \in module_versions :
               /\ r.module_id = mid
               /\ \A o \in module_versions : o.module_id = mid =>
                    ~Less(NewVersion(r.version), NewVersion(o.version)) } }

\* COALESCE(lv.version, '') of the LEFT JOIN
LatestVersion(mid) ==
  IF LatestVersions(mid) = {} THEN {<<>>}
  ELSE { r.version : r \in LatestVersions(mid) }

\* faulty variant: the join has no lv.rn = 1, every version row of a module
\* gives a row of the result
ListModulesResults_AllVersions ==
  LET pairs == { pr \in modules \X (module_versions \cup {<<>>}) :
                   IF pr[2] = <<>>
                     THEN \A r \in module_versions : r.module_id # pr[1].id
                     ELSE pr[2].module_id = pr[1].id }
      n == Cardinality(pairs)
      rows == { s \in [1..n -> pairs] :
                  /\ \A i, j \in 1..n : s[i] = s[j] => i = j
                  /\ \A i, j \in 1..n : i < j => KeyRank(s[i][1]) <= KeyRank(s[j][1]) }
  IN  { [i \in 1..n |-> [namespace |-> s[i][1].namespace, name |-> s[i][1].name,
                          latest_version |-> IF s[i][2] = <<>> THEN <<>>
                                             ELSE s[i][2].version]] :
          s \in rows }

\* the result sets the query may return: every module row once, ordered by
\* (namespace, name), each with a latest version
ListModulesResults ==
  LET n == Cardinality(modules)
      rows == { s \in [1..n -> modules] :
                  /\ \A i, j \in 1..n : s[i] = s[j] => i = j
                  /\ \A i, j \in 1..n : i < j => KeyRank(s[i]) <= KeyRank(s[j]) }
  IN  UNION { { [i \in 1..n |-> [namespace |-> s[i].namespace, name |-> s[i].name,
                                  latest_version |-> lv[i]]] :
                  lv \in { l \in [1..n -> UNION { LatestVersion(m.id) : m \in modules }] :
                             \A i \in 1..n : l[i] \in LatestVersion(s[i].id) } } :
              s \in rows }

\* faulty variant: the error of the query is not looked at, the empty result
\* is returned
ListModules_IgnoreError(p) ==
  /\ MayArrive(p)
  /\ in' = [in EXCEPT ![p] = [NoInput EXCEPT !.kind = "listModules"]]
  /\ UNCHANGED <<authToken, authHeader, backend, dirs, modules, module_versions, objects, loc>>
  /\ pc' = [pc EXCEPT ![p] = "done"]
  /\ UNCHANGED tx
  /\ \/ /\ \E results \in ListModulesResults :
             resp' = [resp EXCEPT ![p] = [NoResp EXCEPT !.status = 200, !.modules = results]]
        /\ UNCHANGED faults
     \/ /\ CanFail
        /\ faults' = faults + 1
        /\ resp' = [resp EXCEPT ![p] = [NoResp EXCEPT !.status = 200]]

ListModules(p) ==
  /\ MayArrive(p)
  /\ in' = [in EXCEPT ![p] = [NoInput EXCEPT !.kind = "listModules"]]
  /\ UNCHANGED <<authToken, authHeader, backend, dirs, modules, module_versions, objects, loc>>
  /\ \/ /\ \E results \in ListModulesResults :
             resp' = [resp EXCEPT ![p] = [NoResp EXCEPT !.status = 200, !.modules = results]]
        /\ pc' = [pc EXCEPT ![p] = "done"]
        /\ UNCHANGED <<tx, faults>>
     \/ FailFault(p, 500, "Failed to retrieve modules")

\* ---------------------------------------------------- ListModuleVersionsHandler
\* Order("created_at DESC").Pluck("version", &versions): the versions of the
\* rows of module mid, latest first
PluckVersions(mid) ==
  LET rows == { r \in module_versions : r.module_id = mid }
      n == Cardinality(rows)
  IN  { [i \in 1..n |-> s[i].version] : s \in
          { t \in [1..n -> rows] :
              /\ \A i, j \in 1..n : t[i] = t[j] => i = j
              /\ \A i, j \in 1..n : i < j => t[i].created_at >= t[j].created_at } }

\* faulty variant: a module that is not found has no versions, and the empty
\* list is returned
ListVersions_NoLookup(p, ns, name) ==
  /\ MayArrive(p)
  /\ in' = [in EXCEPT ![p] = [NoInput EXCEPT !.kind = "listVersions",
                                            !.namespace = ns, !.name = name]]
  /\ UNCHANGED <<authToken, authHeader, backend, dirs, modules, module_versions, objects>>
  /\ IF \E m \in modules : m.namespace = ns /\ m.name = name
       THEN \E m \in modules :
              /\ m.namespace = ns /\ m.name = name
              /\ \E versions \in PluckVersions(m.id) :
                   loc' = [loc EXCEPT ![p].module = m.id, ![p].versions = versions]
       ELSE loc' = [loc EXCEPT ![p].versions = <<>>]
  /\ pc' = [pc EXCEPT ![p] = "sortVersions"]
  /\ UNCHANGED <<tx, resp, faults>>

\* the lookup of the module and the query of its versions
ListVersions(p, ns, name) ==
  /\ MayArrive(p)
  /\ in' = [in EXCEPT ![p] = [NoInput EXCEPT !.kind = "listVersions",
                                            !.namespace = ns, !.name = name]]
  /\ UNCHANGED <<authToken, authHeader, backend, dirs, modules, module_versions, objects>>
  /\ IF ns = "" \/ name = ""
       THEN /\ Fail(p, 400, "Namespace and module name are required")
            /\ UNCHANGED <<loc, faults>>
       ELSE \/ /\ ~\E m \in modules : m.namespace = ns /\ m.name = name
               /\ Fail(p, 404, "Module not found")
               /\ UNCHANGED <<loc, faults>>
            \/ /\ \E m \in modules :
                    /\ m.namespace = ns /\ m.name = name
                    /\ \E versions \in PluckVersions(m.id) :
                         loc' = [loc EXCEPT ![p].module = m.id, ![p].versions = versions]
               /\ pc' = [pc EXCEPT ![p] = "sortVersions"]
               /\ UNCHANGED <<tx, resp, faults>>
            \/ /\ FailFault(p, 500, "Failed to retrieve module")
               /\ UNCHANGED loc
            \/ /\ \E m \in modules : m.namespace = ns /\ m.name = name
               /\ FailFault(p, 500, "Failed to retrieve module versions")
               /\ UNCHANGED loc

\* sortVersionsDesc(versions) and the response
SortVersions(p) ==
  /\ pc[p] = "sortVersions"
  /\ \E versions \in sortVersionsDesc(loc[p].versions) :
       resp' = [resp EXCEPT ![p] = [NoResp EXCEPT !.status = 200, !.versions = versions]]
  /\ pc' = [pc EXCEPT ![p] = "done"]
  /\ UNCHANGED <<authToken, authHeader, backend, dirs, modules, module_versions, objects, faults, in, loc, tx>>

\* ------------------------------------- LocalStorage, called with any name
\* the object names of the calls: plain names, names with ".." elements
\* that leave or stay in the base directory, a rooted name, the empty name
ObjectNames ==
  { <<"f">>,
    <<"a", "f">>,
    <<"a", "..", "f">>,
    <<"..", "f">>,
    <<"a", "..", "..", "q", "f">>,
    <<"/", "etc", "f">>,
    <<>> }

\* the value a call of the storage provider returns: error, bytes, flag
StorageResult(err, bytes, exists) ==
  [NoResp EXCEPT !.error = err, !.body = bytes, !.exists = exists]

\* a file stands where os.MkdirAll needs a directory
MkdirAllBlocked(dir) == \E d \in MkdirAllDirs(dir) : d \in DOMAIN objects

\* a directory stands at the path
IsDir(rel) == rel \in dirs \/ IsAncestor(rel)

\* the call of goroutine p and its result
StorageCall(p, kind, objectName, bytes, result) ==
  /\ MayArrive(p)
  /\ backend = "local"
  /\ in' = [in EXCEPT ![p] = [NoInput EXCEPT !.kind = kind, !.objectName = objectName,
                                            !.artifact = bytes]]
  /\ resp' = [resp EXCEPT ![p] = result]
  /\ pc' = [pc EXCEPT ![p] = "done"]
  /\ UNCHANGED <<authToken, authHeader, backend, modules, module_versions, faults, loc, tx>>

\* faulty variant: the partially written file is left in place
LocalUploadFile_NoCleanup(p, objectName, bytes) ==
  LET g == getFullPath(objectName)
      dir == Dir(g.fullPath)
      file == RelToBase(g.fullPath)
  IN  IF g.err # ""
        THEN /\ StorageCall(p, "UploadFile", objectName, bytes, StorageResult(g.err, <<>>, FALSE))
             /\ UNCHANGED <<objects, dirs>>
      ELSE IF MkdirAllBlocked(dir)
        THEN /\ StorageCall(p, "UploadFile", objectName, bytes,
                            StorageResult("failed to create directory structure", <<>>, FALSE))
             /\ UNCHANGED <<objects, dirs>>
      ELSE IF IsDir(file) \/ file \in MkdirAllDirs(dir)
        THEN /\ StorageCall(p, "UploadFile", objectName, bytes,
                            StorageResult("failed to create local file", <<>>, FALSE))
             /\ dirs' = dirs \cup MkdirAllDirs(dir)
             /\ UNCHANGED objects
      ELSE /\ dirs' = dirs \cup MkdirAllDirs(dir)
           /\ \/ /\ StorageCall(p, "UploadFile", objectName, bytes, StorageResult("", <<>>, FALSE))
                 /\ objects' = Put(objects, file, bytes)
              \/ /\ StorageCall(p, "UploadFile", objectName, bytes,
                                 StorageResult("failed to write data to local file", <<>>, FALSE))
                 /\ objects' = Put(objects, file, <<>>)

\* LocalStorage.UploadFile
LocalUploadFile(p, objectName, bytes) ==
  LET g == getFullPath(objectName)
      dir == Dir(g.fullPath)
      file == RelToBase(g.fullPath)
  IN  IF g.err # ""
        THEN /\ StorageCall(p, "UploadFile", objectName, bytes, StorageResult(g.err, <<>>, FALSE))
             /\ UNCHANGED <<objects, dirs>>
      ELSE IF MkdirAllBlocked(dir)
        THEN /\ StorageCall(p, "UploadFile", objectName, bytes,
                            StorageResult("failed to create directory structure", <<>>, FALSE))
             /\ UNCHANGED <<objects, dirs>>
      ELSE IF IsDir(file) \/ file \in MkdirAllDirs(dir)
        THEN /\ StorageCall(p, "UploadFile", objectName, bytes,
                            StorageResult("failed to create local file", <<>>, FALSE))
             /\ dirs' = dirs \cup MkdirAllDirs(dir)
             /\ UNCHANGED objects
      ELSE /\ dirs' = dirs \cup MkdirAllDirs(dir)
           /\ \/ /\ StorageCall(p, "UploadFile", objectName, bytes, StorageResult("", <<>>, FALSE))
                 /\ objects' = Put(objects, file, bytes)
              \/ /\ StorageCall(p, "UploadFile", objectName, bytes,
                                 StorageResult("failed to write data to local file", <<>>, FALSE))
                 /\ objects' = Remove(objects, file)

\* LocalStorage.DownloadFile
LocalDownloadFile(p, objectName) ==
  LET g == getFullPath(objectName)
      dir == Dir(g.fullPath)
      file == RelToBase(g.fullPath)
  IN  IF g.err # ""
        THEN /\ StorageCall(p, "DownloadFile", objectName, NoFile, StorageResult(g.err, <<>>, FALSE))
             /\ UNCHANGED <<objects, dirs>>
      ELSE IF MkdirAllBlocked(dir)
        THEN /\ StorageCall(p, "DownloadFile", objectName, NoFile,
                            StorageResult("failed to create directory structure", <<>>, FALSE))
             /\ UNCHANGED <<objects, dirs>>
      ELSE /\ dirs' = dirs \cup MkdirAllDirs(dir)
           /\ UNCHANGED objects
           /\ StorageCall(p, "DownloadFile", objectName, NoFile,
                          IF file \in DOMAIN objects
                            THEN StorageResult("", objects[file], FALSE)
                          ELSE IF IsDir(file) \/ file \in MkdirAllDirs(dir)
                            THEN StorageResult("", <<>>, FALSE)
                          ELSE StorageResult("not found locally", <<>>, FALSE))

\* LocalStorage.DeleteFile: os.Remove removes a file or an empty directory
LocalDeleteFile(p, objectName) ==
  LET g == getFullPath(objectName)
      dir == Dir(g.fullPath)
      file == RelToBase(g.fullPath)
      made == dirs \cup MkdirAllDirs(dir)
      empty == /\ \A k \in DOMAIN objects : ~(Len(k) > Len(file) /\ SubSeq(k, 1, Len(file)) = file)
               /\ \A d \in made : ~(Len(d) > Len(file) /\ SubSeq(d, 1, Len(file)) = file)
  IN  IF g.err # ""
        THEN /\ StorageCall(p, "DeleteFile", objectName, NoFile, StorageResult(g.err, <<>>, FALSE))
             /\ UNCHANGED <<objects, dirs>>
      ELSE IF MkdirAllBlocked(dir)
        THEN /\ StorageCall(p, "DeleteFile", objectName, NoFile,
                            StorageResult("failed to create directory structure", <<>>, FALSE))
             /\ UNCHANGED <<objects, dirs>>
      ELSE IF file \in made /\ empty
        THEN /\ StorageCall(p, "DeleteFile", objectName, NoFile, StorageResult("", <<>>, FALSE))
             /\ dirs' = made \ {file}
             /\ UNCHANGED objects
      ELSE IF IsDir(file) \/ file \in made
        THEN /\ StorageCall(p, "DeleteFile", objectName, NoFile,
                            StorageResult("failed to remove local file", <<>>, FALSE))
             /\ dirs' = made
             /\ UNCHANGED objects
      ELSE /\ StorageCall(p, "DeleteFile", objectName, NoFile, StorageResult("", <<>>, FALSE))
           /\ dirs' = made
           /\ objects' = Remove(objects, file)

\* LocalStorage.FileExists
LocalFileExists(p, objectName) ==
  LET g == getFullPath(objectName)
      dir == Dir(g.fullPath)
      file == RelToBase(g.fullPath)
  IN  IF g.err # ""
        THEN /\ StorageCall(p, "FileExists", objectName, NoFile, StorageResult(g.err, <<>>, FALSE))
             /\ UNCHANGED <<objects, dirs>>
      ELSE IF MkdirAllBlocked(dir)
        THEN /\ StorageCall(p, "FileExists", objectName, NoFile,
                            StorageResult("failed to create directory structure", <<>>, FALSE))
             /\ UNCHANGED <<objects, dirs>>
      ELSE /\ dirs' = dirs \cup MkdirAllDirs(dir)
           /\ UNCHANGED objects
           /\ StorageCall(p, "FileExists", objectName, NoFile,
                          StorageResult("", <<>>,
                                        file \in DOMAIN objects \/ IsDir(file)
                                          \/ file \in MkdirAllDirs(dir)))

\* --------------------------------------------- MinioStorage, called alone
\* the object names of the calls to the bucket
MinioNames == { <<"f">>, <<"a", "f">> }

\* the call of goroutine p and its result
MinioCall(p, kind, objectName, bytes, result) ==
  /\ MayArrive(p)
  /\ backend = "minio"
  /\ in' = [in EXCEPT ![p] = [NoInput EXCEPT !.kind = kind, !.objectName = objectName,
                                            !.artifact = bytes]]
  /\ resp' = [resp EXCEPT ![p] = result]
  /\ pc' = [pc EXCEPT ![p] = "done"]
  /\ UNCHANGED <<authToken, authHeader, backend, dirs, modules, module_versions, faults, loc, tx>>

\* MinioStorage.UploadFile: PutObject stores the whole object or nothing
MinioUploadFile(p, objectName, bytes) ==
  \/ /\ MinioCall(p, "UploadFile", objectName, bytes, StorageResult("", <<>>, FALSE))
     /\ objects' = Put(objects, objectName, bytes)
  \/ /\ MinioCall(p, "UploadFile", objectName, bytes,
                   StorageResult("failed to upload object to minio", <<>>, FALSE))
     /\ UNCHANGED objects

\* MinioStorage.DownloadFile
MinioDownloadFile(p, objectName) ==
  /\ UNCHANGED objects
  /\ \/ MinioCall(p, "DownloadFile", objectName, NoFile,
                  IF objectName \in DOMAIN objects
                    THEN StorageResult("", objects[objectName], FALSE)
                    ELSE StorageResult("not found in minio", <<>>, FALSE))
     \/ MinioCall(p, "DownloadFile", objectName, NoFile,
                  StorageResult("failed to get object from minio", <<>>, FALSE))

\* MinioStorage.DeleteFile: RemoveObject of a key without object is no error
MinioDeleteFile(p, objectName) ==
  \/ /\ MinioCall(p, "DeleteFile", objectName, NoFile, StorageResult("", <<>>, FALSE))
     /\ objects' = Remove(objects, objectName)
  \/ /\ MinioCall(p, "DeleteFile", objectName, NoFile,
                   StorageResult("failed to remove object from minio", <<>>, FALSE))
     /\ UNCHANGED objects

\* MinioStorage.FileExists: NoSuchKey of StatObject is the answer false
MinioFileExists(p, objectName) ==
  /\ UNCHANGED objects
  /\ \/ MinioCall(p, "FileExists", objectName, NoFile,
                  StorageResult("", <<>>, objectName \in DOMAIN objects))
     \/ MinioCall(p, "FileExists", objectName, NoFile,
                  StorageResult("failed to stat object in minio", <<>>, FALSE))

\* ------------------------------------- InitStorage and GetStorageProvider
\* The variable backend is the package variable `provider`, an interface
\* value: the nil interface, a constructed backend ("minio", "local"), or an
\* interface value that holds the nil pointer of a constructor that failed.
NilProvider == "nil"
NilPointers == ("minio" :> "(*MinioStorage)(nil)") @@ ("local" :> "(*LocalStorage)(nil)")

\* cfg.StorageType
StorageTypes == {"minio", "local", "Local", "MINIO", "s3", ""}

\* InitStorage(cfg); `built` says whether the constructor of the backend
\* succeeds.  provider, err = NewMinioStorage(cfg) assigns the pointer the
\* constructor returns to the interface variable before err is looked at.
InitStorage(p, cfgStorageType, built) ==
  /\ MayArrive(p)
  /\ in' = [in EXCEPT ![p] = [NoInput EXCEPT !.kind = "InitStorage", !.name = cfgStorageType]]
  /\ pc' = [pc EXCEPT ![p] = "done"]
  /\ UNCHANGED <<authToken, authHeader, modules, module_versions, objects, faults, loc, tx>>
  /\ LET storageType == ToLower(<<cfgStorageType>>)[1] IN
       IF storageType \in {"minio", "local"}
         THEN IF built
                THEN /\ backend' = storageType
                     /\ dirs' = IF storageType = "local" THEN dirs \cup {<<>>} ELSE dirs
                     /\ resp' = [resp EXCEPT ![p] = StorageResult("", <<storageType>>, FALSE)]
                ELSE /\ backend' = NilPointers[storageType]
                     /\ UNCHANGED dirs
                     /\ resp' = [resp EXCEPT ![p] =
                                   StorageResult(IF storageType = "minio"
                                                   THEN "failed to initialize Minio storage"
                                                   ELSE "failed to initialize local storage",
                                                 <<>>, FALSE)]
         ELSE /\ UNCHANGED <<backend, dirs>>
              /\ resp' = [resp EXCEPT ![p] = StorageResult("invalid STORAGE_TYPE", <<>>, FALSE)]

\* GetStorageProvider(): panics if provider == nil, returns provider otherwise
GetStorageProvider(p) ==
  /\ MayArrive(p)
  /\ in' = [in EXCEPT ![p] = [NoInput EXCEPT !.kind = "GetStorageProvider"]]
  /\ pc' = [pc EXCEPT ![p] = "done"]
  /\ resp' = [resp EXCEPT ![p] =
                IF backend = NilProvider
                  THEN StorageResult("panic: Storage provider has not been initialized",
                                     <<>>, FALSE)
                  ELSE StorageResult("", <<backend>>, FALSE)]
  /\ UNCHANGED <<authToken, authHeader, backend, dirs, modules, module_versions, objects,
                 faults, loc, tx>>

\* the handler has returned and the goroutine serves the next request
Finish(p) ==
  /\ pc[p] = "done"
  /\ pc' = [pc EXCEPT ![p] = "idle"]
  /\ in' = [in EXCEPT ![p] = NoInput]
  /\ loc' = [loc EXCEPT ![p] = NoLocals]
  /\ resp' = [resp EXCEPT ![p] = NoResp]
  /\ authHeader' = [authHeader EXCEPT ![p] = NoHeader]
  /\ UNCHANGED <<authToken, backend, dirs, modules, module_versions, objects, faults, tx>>

\* ------------------------------------------------------------------ spec
Next ==
  \E p \in Reqs :
    \/ \E ns \in Namespaces, name \in ModuleNames, v \in RawVersions,
          art \in Artifacts \cup {NoFile} :
         PublishRoute(p, NoHeader, ns, name, v, art)
    \/ FindModule(p)
    \/ CreateModule(p)
    \/ CheckVersion(p)
    \/ UploadMinio(p)
    \/ UploadLocalCreate(p)
    \/ UploadLocalCopy(p)
    \/ CreateVersion(p)
    \/ UpdateModule(p)
    \/ Commit(p)
    \/ \E ns \in Namespaces, name \in ModuleNames, v \in RawVersions :
         Fetch(p, ns, name, v)
    \/ ListModules(p)
    \/ \E ns \in Namespaces, name \in ModuleNames : ListVersions(p, ns, name)
    \/ SortVersions(p)
    \/ Finish(p)

Spec == Init /\ [][Next]_vars

\* sequential requests: a request is served only while no other is in flight
Alone(p) == \A q \in Reqs \ {p} : pc[q] = "idle"

\* the version strings of the sequential requests: one more release, so that
\* a module has three versions that differ in major and in minor
SeqVersions == RawVersions \cup { <<"v", "1", ".", "5", ".", "0">> }

\* a step of goroutine p while no other request is in flight, with requests
\* for the module names, version strings and form files given
SeqStep(p, names, versions, files, headers) ==
  \/ /\ Alone(p)
     /\ \E header \in headers, ns \in Namespaces, name \in names, v \in versions,
           art \in files :
          PublishRoute(p, header, ns, name, v, art)
  \/ Alone(p) /\ FindModule(p)
  \/ Alone(p) /\ CreateModule(p)
  \/ Alone(p) /\ CheckVersion(p)
  \/ Alone(p) /\ UploadMinio(p)
  \/ Alone(p) /\ UploadLocalCreate(p)
  \/ Alone(p) /\ UploadLocalCopy(p)
  \/ Alone(p) /\ CreateVersion(p)
  \/ Alone(p) /\ UpdateModule(p)
  \/ Alone(p) /\ Commit(p)
  \/ /\ Alone(p)
     /\ \E ns \in Namespaces, name \in names, v \in versions :
          Fetch(p, ns, name, v)
  \/ Alone(p) /\ ListModules(p)
  \/ /\ Alone(p)
     /\ \E ns \in Namespaces, name \in names : ListVersions(p, ns, name)
  \/ Alone(p) /\ SortVersions(p)
  \/ Alone(p) /\ Finish(p)

\* the form files of the sequential requests
SeqFiles == Artifacts \cup {NoFile}

\* requests without an Authorization header
NoHeaders == { NoHeader }

SeqNext == \E p \in Reqs : SeqStep(p, ModuleNames, SeqVersions, SeqFiles, NoHeaders)

SpecSeq == Init /\ [][SeqNext]_vars

\* sequential requests for two modules of one namespace, all served by one
\* goroutine; the version strings are a release and a bare major number,
\* and every publish uploads the same bytes
TwoNames == ModuleNames \cup {"order"}
NameVersions == { <<"v", "1", ".", "0", ".", "0">>, <<"2">> }

NameFiles == { <<1>> }

NamesNext == \E p \in {"g1"} : SeqStep(p, TwoNames, NameVersions, NameFiles, NoHeaders)

SpecNames == Init /\ [][NamesNext]_vars

\* concurrent publishes of three releases of one module, all with the same
\* bytes, and module lists: two version rows of the module can get the same
\* creation time
TieVersions == NameVersions \cup { <<"v", "1", ".", "5", ".", "0">> }

TiesNext ==
  \E p \in Reqs :
    \/ \E ns \in Namespaces, name \in ModuleNames, v \in TieVersions, art \in NameFiles :
         PublishRoute(p, NoHeader, ns, name, v, art)
    \/ FindModule(p)
    \/ CreateModule(p)
    \/ CheckVersion(p)
    \/ UploadMinio(p)
    \/ UploadLocalCreate(p)
    \/ UploadLocalCopy(p)
    \/ CreateVersion(p)
    \/ UpdateModule(p)
    \/ Commit(p)
    \/ ListModules(p)
    \/ Finish(p)

SpecTies == Init /\ [][TiesNext]_vars

\* sequential requests to a server with or without an AUTH_TOKEN; the
\* publishes carry no Authorization header, the right one, or a wrong one
AuthTokens == { NoToken, <<"s3cret">> }
AuthHeaders ==
  { NoHeader,
    <<"Bearer", " ", "s3cret">>,
    <<"BEARER", " ", "s3cret">>,
    <<"Bearer", " ", "guess">>,
    <<"Bearer", " ", " ", "s3cret">>,
    <<"Bearer", " ", "s3cret", " ", "x">>,
    <<"Basic", " ", "s3cret">>,
    <<"s3cret">> }
AuthVersions == { <<"v", "1", ".", "0", ".", "0">> }

AuthInit ==
  /\ authToken \in AuthTokens
  /\ authHeader = [p \in Reqs |-> NoHeader]
  /\ backend \in {"minio", "local"}
  /\ modules = {}
  /\ module_versions = {}
  /\ objects = [k \in {} |-> <<>>]
  /\ dirs = IF backend = "local" THEN {<<>>} ELSE {}
  /\ faults = 0
  /\ pc = [p \in Reqs |-> "idle"]
  /\ in = [p \in Reqs |-> NoInput]
  /\ loc = [p \in Reqs |-> NoLocals]
  /\ tx = [p \in Reqs |-> NoTx]
  /\ resp = [p \in Reqs |-> NoResp]

AuthNext == \E p \in {"g1"} : SeqStep(p, ModuleNames, AuthVersions, NameFiles, AuthHeaders)

SpecAuth == AuthInit /\ [][AuthNext]_vars

\* sequential requests whose version strings are three spellings of one
\* release (canonical, without the leading "v", the bare major number) and
\* another release
NormVersions ==
  { <<"v", "2", ".", "0", ".", "0">>,
    <<"2", ".", "0", ".", "0">>,
    <<"2">>,
    <<"v", "1", ".", "0", ".", "0">> }

NormNext == \E p \in {"g1"} : SeqStep(p, ModuleNames, NormVersions, NameFiles, NoHeaders)

SpecNorm == Init /\ [][NormNext]_vars

\* publishes one after the other: a publish arrives while no other request
\* is in flight, and a finished request stays on record until its goroutine
\* returns
NotInFlight(p) == \A q \in Reqs \ {p} : pc[q] \in {"idle", "done"}

RetryNext ==
  \E p \in Reqs :
    \/ /\ NotInFlight(p)
       /\ \E ns \in Namespaces, name \in ModuleNames, v \in NameVersions, art \in Artifacts :
            PublishRoute(p, NoHeader, ns, name, v, art)
    \/ FindModule(p)
    \/ CreateModule(p)
    \/ CheckVersion(p)
    \/ UploadMinio(p)
    \/ UploadLocalCreate(p)
    \/ UploadLocalCopy(p)
    \/ CreateVersion(p)
    \/ UpdateModule(p)
    \/ Commit(p)
    \/ Finish(p)

SpecRetry == Init /\ [][RetryNext]_vars

\* sequential requests for a release, its release candidate, the release
\* with build metadata, and a later release spelled as a bare major number
PreVersions ==
  { <<"v", "1", ".", "0", ".", "0">>,
    <<"v", "1", ".", "0", ".", "0", "-", "rc1">>,
    <<"v", "1", ".", "0", ".", "0", "+", "b7">>,
    <<"2">> }

PreNext == \E p \in {"g1"} : SeqStep(p, ModuleNames, PreVersions, NameFiles, NoHeaders)

SpecPre == Init /\ [][PreNext]_vars

\* ----------------------------------------------------- LocalStorage alone
\* calls of the local storage provider, one after the other
LocalNext ==
  \E p \in {"g1"} :
    \/ \E objectName \in ObjectNames, bytes \in Artifacts :
         LocalUploadFile(p, objectName, bytes)
    \/ \E objectName \in ObjectNames : LocalDownloadFile(p, objectName)
    \/ \E objectName \in ObjectNames : LocalDeleteFile(p, objectName)
    \/ \E objectName \in ObjectNames : LocalFileExists(p, objectName)
    \/ Finish(p)

LocalInit == Init /\ backend = "local"

SpecLocal == LocalInit /\ [][LocalNext]_vars

\* ------------------------------------------- StorageProvider, call by call
\* the calls come one after the other.  Goroutine g1 makes a call when no
\* call is on record, g2 makes the call that follows a call of g1, and g2
\* returns after g1: whenever g2 makes a call, the call on record of g1 is
\* the call before it
OnTurn(p) ==
  IF p = "g1" THEN \A q \in Reqs : pc[q] = "idle"
              ELSE pc["g1"] = "done"

MayReturn(p) == p = "g1" \/ pc["g1"] = "idle"

LawsNext ==
  \E p \in Reqs :
    \/ /\ OnTurn(p)
       /\ \E objectName \in ObjectNames, bytes \in Artifacts :
            LocalUploadFile(p, objectName, bytes)
    \/ /\ OnTurn(p)
       /\ \E objectName \in ObjectNames : LocalDownloadFile(p, objectName)
    \/ /\ OnTurn(p)
       /\ \E objectName \in ObjectNames : LocalDeleteFile(p, objectName)
    \/ /\ OnTurn(p)
       /\ \E objectName \in ObjectNames : LocalFileExists(p, objectName)
    \/ /\ OnTurn(p)
       /\ \E objectName \in MinioNames, bytes \in Artifacts :
            MinioUploadFile(p, objectName, bytes)
    \/ /\ OnTurn(p)
       /\ \E objectName \in MinioNames : MinioDownloadFile(p, objectName)
    \/ /\ OnTurn(p)
       /\ \E objectName \in MinioNames : MinioDeleteFile(p, objectName)
    \/ /\ OnTurn(p)
       /\ \E objectName \in MinioNames : MinioFileExists(p, objectName)
    \/ /\ MayReturn(p)
       /\ Finish(p)

SpecLaws == Init /\ [][LawsNext]_vars

\* --------------------------------------------- the storage package alone
\* the process has started and InitStorage has not been called yet
ProviderInit ==
  /\ authToken = NoToken
  /\ authHeader = [p \in Reqs |-> NoHeader]
  /\ backend = NilProvider
  /\ modules = {}
  /\ module_versions = {}
  /\ objects = [k \in {} |-> <<>>]
  /\ dirs = {}
  /\ faults = 0
  /\ pc = [p \in Reqs |-> "idle"]
  /\ in = [p \in Reqs |-> NoInput]
  /\ loc = [p \in Reqs |-> NoLocals]
  /\ tx = [p \in Reqs |-> NoTx]
  /\ resp = [p \in Reqs |-> NoResp]

ProviderNext ==
  \E p \in Reqs :
    \/ /\ OnTurn(p)
       /\ \E cfgStorageType \in StorageTypes, built \in BOOLEAN :
            InitStorage(p, cfgStorageType, built)
    \/ /\ OnTurn(p)
       /\ GetStorageProvider(p)
    \/ /\ MayReturn(p)
       /\ Finish(p)

SpecProvider == ProviderInit /\ [][ProviderNext]_vars

\* ------------------------------------------------- sortVersionsDesc alone
\* longest slice handed to sortVersionsDesc
MaxLen == 3

\* the strings of the slice: releases that differ in major, minor and patch,
\* a prerelease, a release with build metadata, and strings that do not parse
SortStrings ==
  { <<"v", "1", ".", "0", ".", "0">>,
    <<"v", "2", ".", "0", ".", "0">>,
    <<"v", "1", ".", "5", ".", "0">>,
    <<"v", "1", ".", "10", ".", "1">>,
    <<"v", "1", ".", "0", ".", "0", "-", "rc1">>,
    <<"v", "1", ".", "0", ".", "0", "+", "b7">>,
    <<"x">>,
    <<"v", "1", ".", "x">> }

SortInputs == UNION { [1..n -> SortStrings] : n \in 0..MaxLen }

\* a goroutine is about to call sortVersionsDesc on some slice
SortInit ==
  /\ authToken = NoToken
  /\ authHeader = [p \in Reqs |-> NoHeader]
  /\ backend \in {"minio", "local"}
  /\ modules = {}
  /\ module_versions = {}
  /\ objects = [k \in {} |-> <<>>]
  /\ dirs = IF backend = "local" THEN {<<>>} ELSE {}
  /\ faults = 0
  /\ tx = [p \in Reqs |-> NoTx]
  /\ resp = [p \in Reqs |-> NoResp]
  /\ \E p \in Reqs, versions \in SortInputs :
       /\ pc = [q \in Reqs |-> IF q = p THEN "sortVersions" ELSE "idle"]
       /\ in = [q \in Reqs |-> IF q = p THEN [NoInput EXCEPT !.kind = "listVersions"]
                                       ELSE NoInput]
       /\ loc = [q \in Reqs |-> IF q = p THEN [NoLocals EXCEPT !.versions = versions]
                                        ELSE NoLocals]

SortNext ==
  \E p \in Reqs :
    \/ SortVersions(p)
    \/ Finish(p)

SpecSort == SortInit /\ [][SortNext]_vars

\* ================================================================ claims
\* a publish request that passed validation
ValidPublish(i) ==
  i.kind = "publish" /\ NewVersion(i.version).ok /\ i.artifact # NoFile

\* requests p and q publish the same (namespace, name, version) coordinates
SameCoordinates(i, j) ==
  /\ ValidPublish(i) /\ ValidPublish(j)
  /\ i.namespace = j.namespace /\ i.name = j.name
  /\ NormalizeVersion(i.version) = NormalizeVersion(j.version)

\* C1: every committed ModuleVersion row has a blob present in the blob
\* store at its storage key, under any interleaving and any store failure.
C1_RowHasBlob ==
  \A r \in module_versions : r.artifact_storage_key \in DOMAIN objects

\* C2: there is at most one committed ModuleVersion row for each
\* (module id, version) pair.
C2_UniqueVersion ==
  \A r1, r2 \in module_versions :
    (r1.module_id = r2.module_id /\ r1.version = r2.version) => r1 = r2

\* a publish was refused by the unique index at insert time, after its
\* pre-check had passed, while the winner's row is committed
C2_Witness ==
  \E p \in Reqs :
    /\ faults = 0
    /\ resp[p].status = 500
    /\ resp[p].error = "Database error saving module version"
    /\ \E r \in module_versions : r.version = NormalizeVersion(in[p].version)

\* C3: of the publishes of identical coordinates, one reports success and
\* every other one reports VersionConflict (409), also the one whose
\* pre-check passed and whose insert hit the uniqueness constraint.
C3_LoserGetsConflict ==
  \A p, q \in Reqs :
    (/\ p # q
     /\ faults = 0
     /\ pc[p] = "done" /\ pc[q] = "done"
     /\ SameCoordinates(in[p], in[q])
     /\ resp[p].status = 201)
    => resp[q].status = 409
\* the rows of the coordinates of publish request i in tables ms and vs
RowsIn(i, ms, vs) ==
  { r \in vs :
      /\ r.version = NormalizeVersion(i.version)
      /\ \E m \in ms :
           m.id = r.module_id /\ m.namespace = i.namespace /\ m.name = i.name }

\* the committed row of the coordinates of publish request i, if any
RowsAt(i) == RowsIn(i, modules, module_versions)

\* request p returns in this step
Returns(p) == pc[p] # "done" /\ pc'[p] = "done"

\* the update of the parent Module's updated_at has failed in the publish of
\* goroutine p and its transaction is about to be committed
UpdateFailed(p) ==
  /\ in[p].kind = "publish" /\ pc[p] = "commit"
  /\ tx[p].versions # {} /\ tx[p].touched = {}

\* C4: sequential requests: a publish of unused coordinates with a valid
\* version succeeds (when no store call of the request fails); a publish of coordinates
\* that are already committed reports VersionConflict and leaves the
\* committed rows and the stored blobs unchanged, from its first step on.
C4_Step ==
  \A p \in Reqs :
    /\ (Returns(p) /\ ValidPublish(in'[p]) /\ faults' = faults /\ ~UpdateFailed(p)) =>
         IF RowsAt(in'[p]) = {}
           THEN resp'[p].status = 201 /\ RowsIn(in'[p], modules', module_versions') # {}
           ELSE resp'[p].status = 409
    /\ (ValidPublish(in'[p]) /\ RowsAt(in'[p]) # {} /\ resp'[p].status # 201) =>
         /\ module_versions' = module_versions
         /\ objects' = objects
C4_SequentialPublish == [][C4_Step]_vars

\* a second publish of committed coordinates was answered 409 while the
\* first one's row and blob are in place
C4_Witness ==
  \E p \in Reqs :
    /\ ValidPublish(in[p])
    /\ resp[p].status = 409
    /\ \E r \in RowsAt(in[p]) :
         /\ r.artifact_storage_key \in DOMAIN objects
         /\ objects[r.artifact_storage_key] # in[p].artifact

\* C5: after Publish(namespace, name, version, B) succeeded, Fetch of the
\* published version returns exactly B, and the digest reported by Publish
\* and surfaced by Fetch is SHA-256(B), whatever other publishes ran.
C5_RoundTrip ==
  \A p \in Reqs :
    (in[p].kind = "publish" /\ resp[p].status = 201) =>
      LET f == FetchResponse(in[p].namespace, in[p].name, resp[p].version) IN
        /\ f.status = 200
        /\ f.body = in[p].artifact
        /\ f.digest = Sha256Hex(in[p].artifact)
        /\ resp[p].digest = <<"sha256:", Sha256Hex(in[p].artifact)>>

\* C6: the digest of every committed row is the SHA-256 digest of the
\* bytes currently stored at the row's storage key.
C6_DigestMatchesBlob ==
  \A r \in module_versions :
    r.artifact_storage_key \in DOMAIN objects =>
      r.artifact_digest = Sha256Hex(objects[r.artifact_storage_key])

\* C7: once a row is committed, the bytes stored at its storage key are
\* never overwritten, truncated or deleted.
C7_Step ==
  \A r \in module_versions :
    r.artifact_storage_key \in DOMAIN objects =>
      /\ r.artifact_storage_key \in DOMAIN objects'
      /\ objects'[r.artifact_storage_key] = objects[r.artifact_storage_key]
C7_BlobImmutable == [][C7_Step]_vars

\* the row request p inserted
RowOf(p) ==
  [module_id |-> loc[p].module, version |-> loc[p].versionStr,
   artifact_digest |-> loc[p].artifactDigestHex,
   artifact_storage_key |-> loc[p].storageKey,
   created_at |-> resp[p].created_at]

\* C8: a publish reports success only after its blob Put has completed and,
\* after that, its row has been committed: an inserted row belongs to a
\* request whose upload has returned, and a 201 belongs to a request whose
\* row is committed.
C8_SuccessOrder ==
  \A p \in Reqs :
    /\ tx[p].versions # {} =>
         /\ loc[p].storageKey # <<>>
         /\ loc[p].artifactDigestHex = Sha256Hex(in[p].artifact)
         /\ resp[p].status = 0
    /\ (in[p].kind = "publish" /\ resp[p].status = 201) =>
         /\ loc[p].storageKey # <<>>
         /\ RowOf(p) \in module_versions
         /\ tx[p] = NoTx

\* a publish has reported success; its row is committed and its blob stored
C8_Witness ==
  \E p \in Reqs :
    /\ in[p].kind = "publish" /\ resp[p].status = 201
    /\ RowOf(p) \in module_versions
    /\ loc[p].storageKey \in DOMAIN objects

\* C9: when the insert or the commit of a publish fails after its blob was
\* written, the coordinator deletes that blob again before the request
\* returns (the code has no delete call whose own failure could leave it).
C9_Step ==
  \A p \in Reqs :
    (Returns(p) /\ pc[p] \in {"createVersion", "updateModule", "commit"}
       /\ resp'[p].status # 201) =>
      loc[p].storageKey \notin DOMAIN objects'
C9_CompensatingDelete == [][C9_Step]_vars

\* C10: a publish whose version does not parse fails with InvalidVersion
\* (400) and leaves the tables and the blob store unchanged; no transaction
\* is opened and no module is created.
C10_Step ==
  \A p \in Reqs :
    (pc[p] = "idle" /\ in'[p].kind = "publish" /\ ~NewVersion(in'[p].version).ok) =>
      /\ resp'[p] = ErrorResponse(400, "Invalid semantic version format")
      /\ pc'[p] = "done"
      /\ tx' = tx
      /\ ~tx'[p].open
      /\ UNCHANGED <<modules, module_versions, objects, nextID, now>>
C10_InvalidVersion == [][C10_Step]_vars

\* an invalid version was refused while the stores hold a published version
C10_Witness ==
  \E p \in Reqs :
    /\ resp[p] = ErrorResponse(400, "Invalid semantic version format")
    /\ ~NewVersion(in[p].version).ok
    /\ module_versions # {}
    /\ DOMAIN objects # {}

\* a has a higher (major, minor, patch) than b, compared as numbers
HigherRelease(a, b) ==
  \/ a.major > b.major
  \/ a.major = b.major /\ a.minor > b.minor
  \/ a.major = b.major /\ a.minor = b.minor /\ a.patch > b.patch

\* the committed versions of the module of (namespace, name)
VersionsOf(ns, name) ==
  { r.version : r \in { r \in module_versions :
      \E m \in modules : m.id = r.module_id /\ m.namespace = ns /\ m.name = name } }

\* C11: listing the versions of a module returns its versions, each once,
\* in descending order of (major, minor, patch) compared as numbers,
\* whatever the order in which they were published and returned by the
\* store.
C11_ListSortedDesc ==
  \A p \in Reqs :
    (in[p].kind = "listVersions" /\ resp[p].status = 200) =>
      LET out == resp[p].versions IN
        /\ { out[i] : i \in DOMAIN out } = VersionsOf(in[p].namespace, in[p].name)
        /\ Len(out) = Cardinality(VersionsOf(in[p].namespace, in[p].name))
        /\ \A i, j \in DOMAIN out :
             i < j => HigherRelease(NewVersion(out[i]), NewVersion(out[j]))

\* v1.0.0, v2.0.0 and v1.5.0 were published in this order, the store
\* returned them latest first, and the listing is v2.0.0, v1.5.0, v1.0.0
C11_Witness ==
  \E p \in Reqs :
    /\ in[p].kind = "listVersions" /\ resp[p].status = 200
    /\ loc[p].versions = << <<"v", "1", ".", "5", ".", "0">>,
                            <<"v", "2", ".", "0", ".", "0">>,
                            <<"v", "1", ".", "0", ".", "0">> >>
    /\ resp[p].versions = << <<"v", "2", ".", "0", ".", "0">>,
                             <<"v", "1", ".", "5", ".", "0">>,
                             <<"v", "1", ".", "0", ".", "0">> >>

\* C12: ListModules reports as latest_version of a module the version of
\* the row of the module with the latest created_at, not the highest
\* version (and the empty string for a module without versions).
C12_Step ==
  \A p \in Reqs :
    (pc[p] = "idle" /\ in'[p].kind = "listModules" /\ resp'[p].status = 200) =>
      LET out == resp'[p].modules IN
        /\ Len(out) = Cardinality(modules)
        /\ \A i \in DOMAIN out :
             \E m \in modules :
               /\ m.namespace = out[i].namespace /\ m.name = out[i].name
               /\ IF \A r \in module_versions : r.module_id # m.id
                    THEN out[i].latest_version = <<>>
                    ELSE \E r \in module_versions :
                           /\ r.module_id = m.id
                           /\ r.version = out[i].latest_version
                           /\ \A o \in module_versions :
                                o.module_id = m.id => o.created_at <= r.created_at
C12_LatestByCreation == [][C12_Step]_vars

\* v2.0.0 was created before v1.0.0, and the listing reports v1.0.0
C12_Witness ==
  \E p \in Reqs :
    /\ in[p].kind = "listModules" /\ resp[p].status = 200
    /\ \E i \in DOMAIN resp[p].modules :
         resp[p].modules[i].latest_version = <<"v", "1", ".", "0", ".", "0">>
    /\ \E r, o \in module_versions :
         /\ r.module_id = o.module_id
         /\ r.version = <<"v", "1", ".", "0", ".", "0">>
         /\ o.version = <<"v", "2", ".", "0", ".", "0">>
         /\ o.created_at < r.created_at

\* the number of entries of slice inp that parse as semantic versions
ParseCount(inp) == Cardinality({ i \in DOMAIN inp : NewVersion(inp[i]).ok })

\* the number of entries of slice s that are the string v
Occurrences(s, v) == Cardinality({ i \in DOMAIN s : s[i] = v })

\* C13: the sorted result holds exactly the entries that parse, each as
\* often as the input holds it, in descending order, and no entry that
\* fails to parse: it is shorter than the input by the number of malformed
\* strings.
C13_DropsMalformed ==
  \A p \in Reqs :
    (in[p].kind = "listVersions" /\ resp[p].status = 200) =>
      LET inp == loc[p].versions
          out == resp[p].versions
      IN  /\ Len(out) = ParseCount(inp)
          /\ \A i \in DOMAIN out : NewVersion(out[i]).ok
          /\ \A i \in DOMAIN out :
               Occurrences(out, out[i]) =
                 Cardinality({ k \in DOMAIN inp :
                                 /\ NewVersion(inp[k]).ok
                                 /\ NormalizeVersion(inp[k]) = out[i] })
          /\ \A i, j \in DOMAIN out :
               i < j => ~HigherRelease(NewVersion(out[j]), NewVersion(out[i]))

\* a is listed before b although semantic-version precedence puts it
\* below: b is a higher release, or b is the release of the prerelease a
ListedTooEarly(a, b) ==
  \/ HigherRelease(b, a)
  \/ /\ a.major = b.major /\ a.minor = b.minor /\ a.patch = b.patch
     /\ a.pre # "" /\ b.pre = ""

\* C14: in the sorted versions a prerelease comes after the release with
\* the same major.minor.patch, and the build metadata of a version has no
\* part in its place: the order is the one of the versions without it.
C14_PrereleaseAndMetadata ==
  \A p \in Reqs :
    (in[p].kind = "listVersions" /\ resp[p].status = 200) =>
      LET out == resp[p].versions
          n == ParseCount(loc[p].versions)
      IN  \A i, j \in 1..n :
            i < j => ~ListedTooEarly(NewVersion(out[i]), NewVersion(out[j]))

\* a prerelease, a release of the same numbers with build metadata and a
\* higher release were sorted: higher release, release, prerelease
C14_Witness ==
  \E p \in Reqs :
    /\ in[p].kind = "listVersions" /\ resp[p].status = 200
    /\ loc[p].versions = << <<"v", "1", ".", "0", ".", "0", "-", "rc1">>,
                            <<"v", "1", ".", "0", ".", "0", "+", "b7">>,
                            <<"v", "1", ".", "5", ".", "0">> >>
    /\ resp[p].versions = << <<"v", "1", ".", "5", ".", "0">>,
                             <<"v", "1", ".", "0", ".", "0", "+", "b7">>,
                             <<"v", "1", ".", "0", ".", "0", "-", "rc1">> >>

\* no committed ModuleVersion row for the triple of fetch request i
NoRow(i) ==
  ~\E m \in modules, r \in module_versions :
     /\ m.namespace = i.namespace /\ m.name = i.name
     /\ r.module_id = m.id /\ r.version = i.version

\* request p arrives in this step and is a fetch
FetchArrives(p) == pc[p] = "idle" /\ in'[p].kind = "fetch"

\* C15 as stated: a fetch of a triple without a committed row yields
\* VersionNotFound (404) for every version string, and never bytes.
C15_OriginalStep ==
  \A p \in Reqs :
    (FetchArrives(p) /\ NoRow(in'[p]) /\ faults' = faults) =>
      /\ resp'[p] = ErrorResponse(404, "Module version not found")
      /\ resp'[p].body = <<>>
C15_Step ==
  \A p \in Reqs :
    (FetchArrives(p) /\ NoRow(in'[p])) =>
      /\ resp'[p].status \in {400, 404, 500}
      /\ resp'[p].body = <<>>
      /\ resp'[p].status = 500 <=> faults' # faults
      /\ resp'[p].status = 404 =>
           resp'[p] = ErrorResponse(404, "Module version not found")
      /\ faults' = faults =>
           (resp'[p].status = 404 <=>
              (Len(in'[p].version) > 0 /\ in'[p].version[1] = "v"))
UnsafeKey(objectName) ==
  \/ Len(objectName) > 0 /\ objectName[1] = "/"
  \/ \E i \in DOMAIN objectName : objectName[i] = ".."

\* the files and the directories outside of the base directory
FilesOutside(objs) == [k \in { k \in DOMAIN objs : ~InBase(k) } |-> objs[k]]
DirsOutside(ds) == { d \in ds : ~InBase(d) }

\* request p arrives in this step and is a call of the local storage
StorageCallArrives(p) ==
  /\ pc[p] = "idle"
  /\ in'[p].kind \in {"UploadFile", "DownloadFile", "DeleteFile", "FileExists"}

\* C16: every operation of the local blob store rejects a key that is an
\* absolute path or has a ".." element with InvalidKey, and creates, reads
\* and removes no file or directory outside of the base directory.
C16_Step ==
  \A p \in Reqs :
    StorageCallArrives(p) =>
      /\ UnsafeKey(in'[p].objectName) =>
           /\ resp'[p].error \in {"invalid object name",
                                   "object name cannot be an absolute path"}
           /\ UNCHANGED <<objects, dirs>>
      /\ FilesOutside(objects') = FilesOutside(objects)
      /\ DirsOutside(dirs') = DirsOutside(dirs)
      /\ resp'[p].body # <<>> =>
           \E k \in DOMAIN objects : InBase(k) /\ objects[k] = resp'[p].body
C16_InvalidKey == [][C16_Step]_vars

\* C17: a committed ModuleVersion row is immutable and permanent: whatever
\* step the system takes (Publish, Fetch, ListModules, ListVersions, in any
\* interleaving), every committed row is still there afterwards with the same
\* module, version, digest, storage key and creation timestamp.
C17_Step == \A r \in module_versions : r \in module_versions'

C17_RowsPermanent == [][C17_Step]_vars

\* an older row is still committed after a later version of the same module
\* was committed and a publish of existing coordinates was refused
C17_Witness ==
  /\ \E r1, r2 \in module_versions :
       r1.module_id = r2.module_id /\ r1.created_at < r2.created_at
  /\ \E p \in Reqs : in[p].kind = "publish" /\ resp[p].status = 409

\* C18: there is at most one Module row per (namespace, name), and a committed
\* Module row is never deleted: after every step the committed rows have
\* pairwise different (namespace, name) and every row committed before is
\* still there under the same id, namespace and name.
C18_Step ==
  /\ \A m1, m2 \in modules' :
       (m1.namespace = m2.namespace /\ m1.name = m2.name) => m1 = m2
  /\ \A m \in modules : \E m2 \in modules' :
       m2.id = m.id /\ m2.namespace = m.namespace /\ m2.name = m.name

C18_ModuleUnique == [][C18_Step]_vars

\* two publishes raced to create the same module: one row is committed and
\* the INSERT of the other was refused by the unique index, without any
\* injected failure
C18_Witness ==
  /\ faults = 0
  /\ Cardinality(modules) = 1
  /\ \E p \in Reqs :
       /\ in[p].kind = "publish" /\ pc[p] = "done"
       /\ resp[p].error = "Database error during module lookup/creation"

\* C19: a Module row is created only by a successful Publish under its
\* (namespace, name).  A Publish that returns anything but 201 leaves the
\* modules and module_versions tables exactly as they were, a Module row
\* appears only in the step in which a Publish under its (namespace, name)
\* returns 201, and so every committed Module has a committed ModuleVersion.
C19_Step ==
  /\ \A p \in Reqs :
       (Returns(p) /\ in[p].kind = "publish" /\ resp'[p].status # 201) =>
         UNCHANGED <<modules, module_versions>>
  /\ \A m \in modules' :
       (\A m0 \in modules : m0.id # m.id) =>
         \E p \in Reqs :
           /\ Returns(p) /\ in[p].kind = "publish" /\ resp'[p].status = 201
           /\ in[p].namespace = m.namespace /\ in[p].name = m.name
  /\ \A m \in modules' : \E r \in module_versions' : r.module_id = m.id

C19_ModuleOnlyBySuccess == [][C19_Step]_vars

\* the first Publish of a module had inserted the Module row and the version
\* row in its transaction, the commit failed, and no Module row exists
C19_Witness ==
  /\ modules = {}
  /\ \E p \in Reqs :
       /\ in[p].kind = "publish" /\ pc[p] = "done"
       /\ resp[p].error = "Database error during commit"

\* C20: when the ModuleVersion insert succeeded and the update of updated_at
\* failed, the Publish still commits the version row and answers 201; it ends
\* otherwise only when the commit itself fails on a failure of its own.
C20_Step ==
  \A p \in Reqs :
    (UpdateFailed(p) /\ pc'[p] = "done") =>
      \/ resp'[p].status = 201 /\ tx[p].versions \subseteq module_versions'
      \/ faults' = faults + 1

C20_TimestampFailureNotFatal == [][C20_Step]_vars

\* the version rows of the database, committed or inside an open transaction
AllRows == module_versions \cup UNION { tx[p].versions : p \in Reqs }

\* goroutine p has uploaded the blob of its publish to loc[p].storageKey
HasKey(p) == in[p].kind = "publish" /\ loc[p].storageKey # <<>>

\* C21: the storage key of a Publish is a function of (module id, normalized
\* version) only.  Publish attempts with the same coordinates have the same
\* key, the key agrees with the key of every row of these coordinates, the
\* key a request keeps is the key its blob was written to, and the key of a
\* new row is the key the request has uploaded to.
C21_Step ==
  /\ \A p, q \in Reqs :
       (HasKey(p) /\ HasKey(q) /\ loc[p].module = loc[q].module
          /\ loc[p].versionStr = loc[q].versionStr) =>
         loc[p].storageKey = loc[q].storageKey
  /\ \A p \in Reqs : \A r \in AllRows :
       (HasKey(p) /\ r.module_id = loc[p].module /\ r.version = loc[p].versionStr) =>
         r.artifact_storage_key = loc[p].storageKey
  /\ \A p \in Reqs :
       (in[p].kind = "publish" /\ loc[p].storageKey = <<>> /\ loc'[p].storageKey # <<>>) =>
         /\ loc'[p].storageKey \in DOMAIN objects'
         /\ objects'[loc'[p].storageKey] = in[p].artifact
         /\ objects' # objects =>
              \A k \in DOMAIN objects : k # loc'[p].storageKey => objects'[k] = objects[k]
  /\ \A p \in Reqs : \A r \in tx'[p].versions \ tx[p].versions :
       r.artifact_storage_key = loc[p].storageKey /\ HasKey(p)

PcOrder ==
  <<"idle", "findModule", "createModule", "checkVersion", "upload", "copy",
    "createVersion", "updateModule", "commit", "sortVersions", "done">>
PcRank(s) == CHOOSE i \in DOMAIN PcOrder : PcOrder[i] = s

\* C22: the core never retries.  A request only moves forward through the
\* steps of its handler, so a Publish makes at most one blob Put and at most
\* one ModuleVersion insert attempt; a failed store call ends the request (or
\* is the tolerated updated_at failure); the response is written exactly
\* once, in the step in which the request ends, and it is never empty.
C22_Step ==
  /\ \A p \in Reqs :
       /\ pc'[p] # pc[p] =>
            \/ pc[p] = "done" /\ pc'[p] = "idle"
            \/ pc[p] # "done" /\ PcRank(pc'[p]) > PcRank(pc[p])
       /\ pc'[p] = pc[p] => (loc'[p] = loc[p] /\ tx'[p] = tx[p] /\ resp'[p] = resp[p])
       /\ ~(tx'[p].versions \subseteq tx[p].versions) =>
            (pc[p] = "createVersion" /\ pc'[p] = "updateModule")
       /\ pc[p] \notin {"done", "idle"} => resp[p] = NoResp
       /\ (pc[p] # "done" /\ pc'[p] = "done") => resp'[p].status # 0
       /\ pc[p] = "done" => (resp'[p] = resp[p] \/ pc'[p] = "idle")
  /\ objects' # objects =>
       \E p \in Reqs : pc[p] \in {"upload", "copy"} /\ pc'[p] # pc[p]
  /\ faults' # faults =>
       \E p \in Reqs :
         \/ pc[p] # "done" /\ pc'[p] = "done" /\ resp'[p].status = 500
         \/ pc[p] = "updateModule" /\ pc'[p] = "commit"

C22_NoRetry == [][C22_Step]_vars

\* a Publish has ended with an error after its one Put had stored the blob:
\* the insert of the version row failed and was not tried again
C22_Witness ==
  \E p \in Reqs :
    /\ in[p].kind = "publish" /\ pc[p] = "done"
    /\ resp[p].error = "Database error saving module version"
    /\ loc[p].storageKey \in DOMAIN objects
    /\ module_versions = {}

\* a ListVersions request arrives at goroutine p
ListVersionsArrives(p) == pc[p] = "idle" /\ in'[p].kind = "listVersions"

\* C23: ListVersions for a (namespace, name) that has no Module row answers
\* 404 "Module not found" at once (when the lookup itself does not fail), and
\* never a version list.
C23_Step ==
  \A p \in Reqs :
    (/\ ListVersionsArrives(p)
     /\ ~\E m \in modules : m.namespace = in'[p].namespace /\ m.name = in'[p].name
     /\ faults' = faults) =>
      /\ pc'[p] = "done"
      /\ resp'[p].status = 404
      /\ resp'[p].error = "Module not found"

C23_ModuleNotFound == [][C23_Step]_vars

\* the versions of a module without a row were asked for and 404 was the
\* answer, while another module of the namespace has a committed version
C23_Witness ==
  \E p \in Reqs :
    /\ in[p].kind = "listVersions" /\ pc[p] = "done"
    /\ resp[p].status = 404
    /\ module_versions # {}
    /\ ~\E m \in modules : m.namespace = in[p].namespace /\ m.name = in[p].name

\* the entries of a module list that stand for module row m
EntriesOf(list, m) ==
  { i \in DOMAIN list : list[i].namespace = m.namespace /\ list[i].name = m.name }

\* C24: ListModules returns exactly one entry per committed Module, none
\* missing and none twice, however many versions the module has and whether
\* or not their creation times are equal; the entry carries a version of that
\* module, and the empty string where the module has no version row (which
\* is also what the query gives for an id without version rows).
C24_Step ==
  /\ \A p \in Reqs :
       (pc[p] = "idle" /\ in'[p].kind = "listModules" /\ resp'[p].status = 200) =>
         LET list == resp'[p].modules IN
           /\ Len(list) = Cardinality(modules)
           /\ \A m \in modules :
                /\ Cardinality(EntriesOf(list, m)) = 1
                /\ \A i \in EntriesOf(list, m) :
                     IF \E r \in module_versions : r.module_id = m.id
                       THEN \E r \in module_versions :
                              r.module_id = m.id /\ r.version = list[i].latest_version
                       ELSE list[i].latest_version = <<>>
  /\ LatestVersion(nextID) = {<<>>}

IsBearer(header, token) ==
  /\ Len(header) = 1 + 1 + Len(token)
  /\ ToLower(<<header[1]>>) = <<"bearer">>
  /\ header[2] = " "
  /\ SubSeq(header, 3, Len(header)) = token

\* C25: with a non-empty auth token configured, a Publish request reaches
\* the publish handler only if its Authorization header is the Bearer scheme
\* with the configured token; with a missing header, a malformed header or a
\* wrong token the answer is 401, the handler does nothing and both stores
\* stay as they are.  The list and fetch routes never answer 401.
C25_Step ==
  \A p \in Reqs :
    /\ (pc[p] = "idle" /\ in'[p].kind = "publish" /\ authToken # NoToken) =>
         IF IsBearer(authHeader'[p], authToken)
           THEN resp'[p].status # 401
           ELSE /\ pc'[p] = "done"
                /\ resp'[p].status = 401
                /\ tx'[p] = NoTx /\ loc'[p] = NoLocals
                /\ UNCHANGED <<modules, module_versions, objects, dirs, faults>>
    /\ (pc[p] = "idle" /\ in'[p].kind \in {"listModules", "listVersions", "fetch"}) =>
         /\ authHeader'[p] = NoHeader
         /\ resp'[p].status # 401

C25_PublishNeedsToken == [][C25_Step]_vars

\* with a token configured, a publish with a wrong token was refused after a
\* publish with the right token had committed a version
C25_Witness ==
  \E p \in Reqs :
    /\ authToken # NoToken
    /\ in[p].kind = "publish" /\ pc[p] = "done"
    /\ authHeader[p] = <<"Bearer", " ", "guess">>
    /\ resp[p].status = 401
    /\ module_versions # {}

\* C26: a failure of the metadata store during a listing is answered with
\* 500 and no list at all: ListModules with "Failed to retrieve modules",
\* ListVersions with "Failed to retrieve module" when the lookup of the
\* module fails and with "Failed to retrieve module versions" when the query
\* of the versions of the module found fails.
C26_Step ==
  \A p \in Reqs :
    (pc[p] = "idle" /\ in'[p].kind \in {"listModules", "listVersions"}
       /\ faults' = faults + 1) =>
      /\ pc'[p] = "done"
      /\ resp'[p].status = 500
      /\ resp'[p].modules = <<>> /\ resp'[p].versions = <<>>
      /\ IF in'[p].kind = "listModules"
           THEN resp'[p].error = "Failed to retrieve modules"
           ELSE \/ resp'[p].error = "Failed to retrieve module"
                \/ /\ resp'[p].error = "Failed to retrieve module versions"
                   /\ \E m \in modules :
                        m.namespace = in'[p].namespace /\ m.name = in'[p].name

C26_ListingFailureIs500 == [][C26_Step]_vars

\* the query of the versions of a module with two committed versions failed
C26_Witness ==
  \E p \in Reqs :
    /\ in[p].kind = "listVersions" /\ pc[p] = "done"
    /\ resp[p].status = 500 /\ resp[p].error = "Failed to retrieve module versions"
    /\ resp[p].versions = <<>>
    /\ Cardinality(module_versions) = 2

\* C27: Fetch never re-verifies the digest.  When the row of the triple is
\* found and its storage key holds a blob (and no store call fails), the
\* answer is 200 with the bytes now stored at the key and the digest of the
\* row as the tag, whether or not the bytes hash to that digest.
C27_Step ==
  \A p \in Reqs :
    (FetchArrives(p) /\ faults' = faults) =>
      \A r \in FetchRows(in'[p].namespace, in'[p].name, in'[p].version) :
        r.artifact_storage_key \in DOMAIN objects =>
          /\ pc'[p] = "done"
          /\ resp'[p].status = 200
          /\ resp'[p].body = objects[r.artifact_storage_key]
          /\ resp'[p].digest = r.artifact_digest

C27_FetchDoesNotVerify == [][C27_Step]_vars

\* a fetch was answered 200 with bytes that do not hash to the digest sent
C27_Witness ==
  \E p \in Reqs :
    /\ in[p].kind = "fetch" /\ pc[p] = "done"
    /\ resp[p].status = 200
    /\ Sha256Hex(resp[p].body) # resp[p].digest

\* C28: find-or-create of the Module is idempotent under concurrency: a valid
\* Publish of unused coordinates that runs while another request publishes a
\* different version of the same (namespace, name) succeeds when no store call
\* has failed, and its row is committed under the one Module row of the
\* pair, whichever of the two requests created that row.
C28_Step ==
  \A p \in Reqs :
    (/\ Returns(p) /\ ValidPublish(in[p]) /\ faults' = 0
     /\ RowsAt(in[p]) = {}
     /\ \E q \in Reqs \ {p} :
          /\ ValidPublish(in[q])
          /\ in[q].namespace = in[p].namespace /\ in[q].name = in[p].name
          /\ ~SameCoordinates(in[p], in[q])) =>
      /\ resp'[p].status = 201
      /\ RowsIn(in[p], modules', module_versions') # {}
      /\ Cardinality({ m \in modules' :
                         m.namespace = in[p].namespace /\ m.name = in[p].name }) = 1

C28_FindOrCreateIdempotent == [][C28_Step]_vars

\* the version string is canonical: "v", then major.minor.patch, and
\* normalizing it changes nothing
Canonical(v) ==
  /\ Len(v) >= 6 /\ v[1] = "v"
  /\ NumAt(v, 2) /\ DotNumAt(v, 3) /\ DotNumAt(v, 5)
  /\ NewVersion(v).ok
  /\ v = <<"v">> \o VersionString(NewVersion(v))

\* C29: Publish normalizes the version before any store access: while a
\* publish is at work its versionStr is the canonical form of the version of
\* the request, every version row (committed or inserted in a transaction)
\* has a canonical version string, and a sequential Publish whose version
\* normalizes to the version of a committed row of the module reports
\* VersionConflict (409), however the version is spelled.
C29_Step ==
  /\ \A p \in Reqs :
       (in'[p].kind = "publish" /\ pc'[p] \notin {"idle", "done"}) =>
         /\ Canonical(loc'[p].versionStr)
         /\ NewVersion(loc'[p].versionStr) = NewVersion(in'[p].version)
  /\ \A r \in module_versions' \cup UNION { tx'[p].versions : p \in Reqs } :
       Canonical(r.version)
  /\ \A p \in Reqs :
       (Returns(p) /\ ValidPublish(in[p]) /\ faults' = faults /\ ~UpdateFailed(p)) =>
         IF \E r \in module_versions : \E m \in modules :
              /\ m.id = r.module_id
              /\ m.namespace = in[p].namespace /\ m.name = in[p].name
              /\ NewVersion(r.version) = NewVersion(in[p].version)
           THEN resp'[p].status = 409 /\ UNCHANGED <<modules, module_versions, objects>>
           ELSE resp'[p].status = 201

C29_NormalizedCoordinates == [][C29_Step]_vars

\* a publish with a version spelled without the leading "v" was answered
\* 409 because the canonical version is committed
C29_Witness ==
  \E p \in Reqs :
    /\ in[p].kind = "publish" /\ pc[p] = "done"
    /\ in[p].version = <<"2", ".", "0", ".", "0">>
    /\ resp[p].status = 409
    /\ \E r \in module_versions : r.version = <<"v", "2", ".", "0", ".", "0">>

\* C30: Fetch resolves a version string to the same coordinates as Publish:
\* for a version string that Publish accepts and whose version is committed
\* for the module, with its blob in place, Fetch with that string answers
\* 200 with the bytes of the blob (when no store call fails), also when the
\* string has no leading "v" or leaves out minor and patch.
C30_Step ==
  \A p \in Reqs :
    (FetchArrives(p) /\ NewVersion(in'[p].version).ok /\ faults' = faults) =>
      \A r \in RowsIn(in'[p], modules, module_versions) :
        r.artifact_storage_key \in DOMAIN objects =>
          /\ resp'[p].status = 200
          /\ resp'[p].body = objects[r.artifact_storage_key]

C30_FetchAsPublished == [][C30_Step]_vars

\* C31: in every state reached through Publish, ListVersions of a module
\* returns a permutation of the committed version strings of the module:
\* each of them exactly once and nothing else, so sorting loses, doubles or
\* rewrites no version.
C31_Step ==
  \A p \in Reqs :
    (in[p].kind = "listVersions" /\ pc[p] = "sortVersions" /\ pc'[p] = "done") =>
      LET out == resp'[p].versions
          committed == VersionsOf(in[p].namespace, in[p].name)
      IN  /\ resp'[p].status = 200
          /\ Len(out) = Cardinality(committed)
          /\ \A v \in committed : Occurrences(out, v) = 1
          /\ \A i \in DOMAIN out : out[i] \in committed

C31_ListIsPermutation == [][C31_Step]_vars

\* all four versions are listed, among them the release with build metadata
\* next to the release it compares equal to
C31_Witness ==
  \E p \in Reqs :
    /\ in[p].kind = "listVersions" /\ pc[p] = "done" /\ resp[p].status = 200
    /\ Len(resp[p].versions) = 4
    /\ Occurrences(resp[p].versions, <<"v", "1", ".", "0", ".", "0", "+", "b7">>) = 1
    /\ Occurrences(resp[p].versions, <<"v", "1", ".", "0", ".", "0">>) = 1
    /\ Occurrences(resp[p].versions, <<"v", "2", ".", "0", ".", "0">>) = 1

\* the (namespace, name, version) coordinates of version row r in tables ms
CoordinatesOf(r, ms) ==
  { <<m.namespace, m.name, r.version>> : m \in { m \in ms : m.id = r.module_id } }

\* the coordinates of publish request i
CoordinatesAt(i) == <<i.namespace, i.name, NormalizeVersion(i.version)>>

\* C32: distinct coordinates never share a blob key, and a step of a Publish
\* of (module, version), successful or not, leaves the committed rows and
\* the stored bytes of every other (module', version') as they were: it
\* commits rows of its own coordinates only and writes or removes the blob
\* of its own key only.
C32_Step ==
  /\ \A r1, r2 \in module_versions :
       r1.artifact_storage_key = r2.artifact_storage_key =>
         (r1.module_id = r2.module_id /\ r1.version = r2.version)
  /\ \A p \in Reqs :
       (in'[p].kind = "publish" /\ pc'[p] # pc[p]) =>
         /\ \A r \in module_versions :
              CoordinatesOf(r, modules) # {CoordinatesAt(in'[p])} =>
                /\ r \in module_versions'
                /\ CoordinatesOf(r, modules') = CoordinatesOf(r, modules)
                /\ r.artifact_storage_key \in DOMAIN objects =>
                     /\ r.artifact_storage_key \in DOMAIN objects'
                     /\ objects'[r.artifact_storage_key] = objects[r.artifact_storage_key]
         /\ \A r \in module_versions' \ module_versions :
              CoordinatesOf(r, modules') = {CoordinatesAt(in'[p])}

C32_DistinctCoordinatesApart == [][C32_Step]_vars

\* a publish has succeeded and another one has failed after its upload,
\* while a version with other coordinates is committed with its blob in
\* place, holding bytes other than the ones of the two requests
C32_Witness ==
  \E p, q \in Reqs :
    /\ p # q
    /\ in[p].kind = "publish" /\ pc[p] = "done" /\ resp[p].status = 201
    /\ in[q].kind = "publish" /\ pc[q] = "done" /\ resp[q].status = 500
    /\ loc[q].storageKey # <<>>
    /\ CoordinatesAt(in[p]) = CoordinatesAt(in[q])
    /\ \E r \in module_versions :
         /\ CoordinatesOf(r, modules) # {CoordinatesAt(in[p])}
         /\ r.artifact_storage_key \in DOMAIN objects
         /\ objects[r.artifact_storage_key] # in[p].artifact
         /\ objects[r.artifact_storage_key] # in[q].artifact

\* goroutine p makes the storage call `kind` in this step, right after the
\* call `before` of goroutine q, which was for the same object name and
\* returned without error
CallAfter(p, q, before, kind) ==
  /\ p # q
  /\ pc[p] = "idle" /\ in'[p].kind = kind
  /\ pc[q] = "done" /\ in[q].kind = before /\ resp[q].error = ""
  /\ in'[p].objectName = in[q].objectName

\* the errors of the storage providers that say that there is no object
NotFoundErrors == {"not found locally", "not found in minio"}

\* the errors of a call that did not reach the bucket
MinioErrors ==
  {"failed to upload object to minio", "failed to get object from minio",
   "failed to remove object from minio", "failed to stat object in minio"}

\* C33: the key-value laws of the Blob Store, for both backends.  Right
\* after a successful Put(key, bytes), Exists(key) is true and Get(key) gives
\* these bytes; right after a successful Delete(key), Exists(key) is false
\* and Get(key) fails with NotFound; in the local backend a Delete of a key
\* that Exists has just reported missing, or that was just deleted,
\* succeeds.  (A call that fails to reach the bucket says nothing.)
C33_Step ==
  \A p, q \in Reqs :
    /\ (CallAfter(p, q, "UploadFile", "FileExists") /\ resp'[p].error \notin MinioErrors) =>
         resp'[p].error = "" /\ resp'[p].exists
    /\ (CallAfter(p, q, "UploadFile", "DownloadFile") /\ resp'[p].error \notin MinioErrors) =>
         resp'[p].error = "" /\ resp'[p].body = in[q].artifact
    /\ (CallAfter(p, q, "DeleteFile", "FileExists") /\ resp'[p].error \notin MinioErrors) =>
         resp'[p].error = "" /\ ~resp'[p].exists
    /\ (CallAfter(p, q, "DeleteFile", "DownloadFile") /\ resp'[p].error \notin MinioErrors) =>
         resp'[p].error \in NotFoundErrors /\ resp'[p].body = <<>>
    /\ (CallAfter(p, q, "DeleteFile", "DeleteFile") /\ backend = "local") =>
         resp'[p].error = ""
    /\ (CallAfter(p, q, "FileExists", "DeleteFile") /\ ~resp[q].exists /\ backend = "local") =>
         resp'[p].error = "" /\ objects' = objects

FileOf(objectName) == RelToBase(getFullPath(objectName).fullPath)

\* LocalStorage.UploadFile of goroutine p has failed while copying the data
CopyFailed(i, r) ==
  i.kind = "UploadFile" /\ r.error = "failed to write data to local file"

\* C34: in the local backend a Put that fails while copying the data leaves
\* no file at the key, whether or not a file was stored there before the
\* call, and an Exists(key) right after the failed call answers false.
C34_Step ==
  \A p \in Reqs :
    /\ (pc[p] = "idle" /\ CopyFailed(in'[p], resp'[p])) =>
         FileOf(in'[p].objectName) \notin DOMAIN objects'
    /\ \A q \in Reqs \ {p} :
         (/\ pc[q] = "done" /\ CopyFailed(in[q], resp[q])
          /\ pc[p] = "idle" /\ in'[p].kind = "FileExists"
          /\ in'[p].objectName = in[q].objectName) =>
           resp'[p].error = "" /\ ~resp'[p].exists

UploadFailed(q) ==
  /\ in[q].kind = "publish" /\ pc[q] = "done"
  /\ resp[q] = ErrorResponse(500, "Failed to upload artifact to storage")

\* C35: a Publish whose blob Put fails answers 500 with a storage failure,
\* rolls its transaction back and commits no row: the tables are as before
\* and the request holds no uncommitted row that another request would wait
\* for.  A Publish of the same coordinates that returns while the failed
\* attempt is on record, made after it and with no failure of its own,
\* succeeds when the coordinates are unused (and is answered 409 when they
\* are taken).
C35_Step ==
  \A p \in Reqs :
    /\ (in[p].kind = "publish" /\ pc[p] \in {"upload", "copy"} /\ pc'[p] = "done") =>
         /\ resp'[p] = ErrorResponse(500, "Failed to upload artifact to storage")
         /\ tx'[p] = NoTx
         /\ modules' = modules /\ module_versions' = module_versions
         /\ RowsIn(in[p], modules', module_versions') = RowsAt(in[p])
    /\ UploadFailed(p) =>
         tx[p] = NoTx
    /\ \A q \in Reqs \ {p} :
         (/\ UploadFailed(q) /\ SameCoordinates(in[p], in[q])
          /\ Returns(p) /\ faults' = faults /\ ~UpdateFailed(p)) =>
           IF RowsAt(in[p]) = {}
             THEN /\ resp'[p].status = 201
                  /\ RowsIn(in[p], modules', module_versions') # {}
             ELSE resp'[p].status = 409

C35_FailedPutRollsBack == [][C35_Step]_vars

\* the blob Put of a publish that had created the module in its transaction
\* has failed, and a publish of the same coordinates has then created the
\* module and succeeded
C35_Witness ==
  \E p, q \in Reqs :
    /\ p # q
    /\ UploadFailed(q) /\ SameCoordinates(in[p], in[q])
    /\ loc[q].module # NoID
    /\ in[p].kind = "publish" /\ pc[p] = "done" /\ resp[p].status = 201
    /\ loc[p].module > loc[q].module
    /\ RowsAt(in[p]) # {}
    /\ \A m \in modules : m.id = loc[p].module

\* the files and the directories in the base directory
FilesInBase(objs) == [k \in { k \in DOMAIN objs : InBase(k) } |-> objs[k]]
DirsInBase(ds) == { d \in ds : InBase(d) }

\* no file and no directory stands at the path of the object name
MissingKey(objectName) ==
  IF getFullPath(objectName).err # "" THEN TRUE
  ELSE FileOf(objectName) \notin DOMAIN objects /\ ~IsDir(FileOf(objectName))

\* C36: Get (DownloadFile) and Exists (FileExists) of the local backend, and
\* a Delete of a missing key, leave the files and the directories under the
\* base directory as they are.
C36_Step ==
  \A p \in Reqs :
    (/\ pc[p] = "idle"
     /\ \/ in'[p].kind \in {"DownloadFile", "FileExists"}
        \/ in'[p].kind = "DeleteFile" /\ MissingKey(in'[p].objectName)) =>
      /\ FilesInBase(objects') = FilesInBase(objects)
      /\ DirsInBase(dirs') = DirsInBase(dirs)

C36_ReadsLeaveDiskUnchanged == [][C36_Step]_vars

\* C37: GetStorageProvider panics unless InitStorage has completed
\* successfully: the provider it hands out is a backend that a successful
\* InitStorage has constructed, and right after an InitStorage call that
\* returned an error in a process without provider it panics.
C37_Step ==
  \A p \in Reqs :
    (pc[p] = "idle" /\ in'[p].kind = "GetStorageProvider") =>
      /\ resp'[p].error = "" => resp'[p].body \in {<<"minio">>, <<"local">>}
      /\ \A q \in Reqs \ {p} :
           (/\ pc[q] = "done" /\ in[q].kind = "InitStorage" /\ resp[q].error # ""
            /\ backend \notin {"minio", "local"}) =>
             resp'[p].error = "panic: Storage provider has not been initialized"

C37_PanicsUnlessInitialized == [][C37_Step]_vars

====
